---- MODULE Spec2Model ----
(***************************************************************************)
(* Model of the journey workflow engine (backend/src/journey):             *)
(* Orchestrator.get_next_step / process_user_response over a caller-owned  *)
(* session state, with the interpolator and the structured condition       *)
(* evaluator they use.                                                     *)
(*                                                                         *)
(* Python strings are sequences of one-character strings; every Python     *)
(* value carries a tag (t) naming its type, so that isinstance tests,      *)
(* str() and truthiness can be computed as the code computes them.         *)
(***************************************************************************)
EXTENDS Integers, Sequences, FiniteSets, TLC

VARIABLES wf, tool_registry, action_registry, session, next_uuid, last,
          emitted_ids, pending_at

vars == <<wf, tool_registry, action_registry, session, next_uuid, last,
          emitted_ids, pending_at>>

(***************************************************************************)
(* Bounds                                                                  *)
(***************************************************************************)
\* number of uuid4 values drawn in one behaviour
MaxIds == 3

\* longest string a variable may hold
MaxStrLen == 5

\* longest list a variable may hold
MaxListLen == 3

(***************************************************************************)
(* Python values                                                           *)
(***************************************************************************)
StrV(s) == [t |-> "str", v |-> s]

BoolV(b) == [t |-> "bool", v |-> b]

NoneV == [t |-> "none", v |-> 0]

IntV(n) == [t |-> "int", v |-> n]

ListV(l) == [t |-> "list", v |-> l]

\* a list object of the parsed workflow document.  The engine passes such a
\* list around by reference (dict.copy() is shallow and interpolation returns
\* a value that is not a string as it is), so the model keeps the identity of
\* the object with the value: two values with the same id are one object.
DocList(id, l) == [t |-> "list", v |-> l, id |-> id]

UpperChars == <<"A", "B", "C", "D", "E", "F", "G", "H", "I", "J", "K", "L", "M",
                "N", "O", "P", "Q", "R", "S", "T", "U", "V", "W", "X", "Y", "Z">>

LowerChars == <<"a", "b", "c", "d", "e", "f", "g", "h", "i", "j", "k", "l", "m",
                "n", "o", "p", "q", "r", "s", "t", "u", "v", "w", "x", "y", "z">>

DigitChars == {"0", "1", "2", "3", "4", "5", "6", "7", "8", "9"}

\* str.lower() on one character
LowerChar(c) ==
    IF \E i \in 1..26 : UpperChars[i] = c
    THEN LowerChars[CHOOSE i \in 1..26 : UpperChars[i] = c]
    ELSE c

\* str.lower()
Lower(s) == [i \in 1..Len(s) |-> LowerChar(s[i])]

\* the character class [\w\s] of the placeholder pattern
IsNameChar(c) ==
    \/ \E i \in 1..26 : UpperChars[i] = c \/ LowerChars[i] = c
    \/ c \in DigitChars
    \/ c \in {"_", " "}

DigitOf == <<"0", "1", "2", "3", "4", "5", "6", "7", "8", "9">>

\* str(n) for a natural number n
RECURSIVE NatStr(_)
NatStr(n) ==
    IF n < 10 THEN <<DigitOf[n + 1]>>
    ELSE NatStr(n \div 10) \o <<DigitOf[(n % 10) + 1]>>

\* repr(value): a string is quoted (the strings here hold no quote or
\* backslash), a list shows the repr of its elements
RECURSIVE PyRepr(_)
RECURSIVE ReprJoin(_)
ReprJoin(l) ==
    IF l = <<>> THEN <<>>
    ELSE IF Len(l) = 1 THEN PyRepr(l[1])
    ELSE PyRepr(l[1]) \o <<",", " ">> \o ReprJoin(Tail(l))

PyRepr(val) ==
    CASE val.t = "str" -> <<"'">> \o val.v \o <<"'">>
      [] val.t = "bool" -> IF val.v THEN <<"T", "r", "u", "e">>
                                    ELSE <<"F", "a", "l", "s", "e">>
      [] val.t = "none" -> <<"N", "o", "n", "e">>
      [] val.t = "int" -> NatStr(val.v)
      [] val.t = "list" -> <<"[">> \o ReprJoin(val.v) \o <<"]">>

\* str(value)
PyStr(val) == IF val.t = "str" THEN val.v ELSE PyRepr(val)

\* truthiness of a value (if x:)
Truthy(val) ==
    CASE val.t = "str" -> val.v # <<>>
      [] val.t = "bool" -> val.v
      [] val.t = "none" -> FALSE
      [] val.t = "int" -> val.v # 0
      [] val.t = "list" -> val.v # <<>>

(***************************************************************************)
(* utils.interpolate_variables                                             *)
(***************************************************************************)
\* number of characters of [\w\s] starting at position i of s
RECURSIVE NameRun(_, _)
NameRun(s, i) ==
    IF i <= Len(s) /\ IsNameChar(s[i]) THEN 1 + NameRun(s, i + 1) ELSE 0

\* re.findall(r'\{([\w\s]+)\}', s), scanning from position i
RECURSIVE FindAll(_, _)
FindAll(s, i) ==
    IF i > Len(s) THEN <<>>
    ELSE LET n == NameRun(s, i + 1) IN
         IF s[i] = "{" /\ n >= 1 /\ i + n + 1 <= Len(s) /\ s[i + n + 1] = "}"
         THEN <<SubSeq(s, i + 1, i + n)>> \o FindAll(s, i + n + 2)
         ELSE FindAll(s, i + 1)

\* s.replace(pat, rep) for a non-empty pat, scanning from position i
RECURSIVE Replace(_, _, _, _)
Replace(s, pat, rep, i) ==
    IF i > Len(s) THEN <<>>
    ELSE IF i + Len(pat) - 1 <= Len(s) /\ SubSeq(s, i, i + Len(pat) - 1) = pat
         THEN rep \o Replace(s, pat, rep, i + Len(pat))
         ELSE <<s[i]>> \o Replace(s, pat, rep, i + 1)

\* the loop "for var_name in matches" of interpolate_variables
RECURSIVE InterpolateLoop(_, _, _)
InterpolateLoop(text, matches, variables) ==
    IF matches = <<>> THEN text
    ELSE LET var_name == Head(matches) IN
         IF var_name \in DOMAIN variables /\ variables[var_name].t # "none"
         THEN InterpolateLoop(
                  Replace(text, <<"{">> \o var_name \o <<"}">>,
                          PyStr(variables[var_name]), 1),
                  Tail(matches), variables)
         ELSE InterpolateLoop(text, Tail(matches), variables)

interpolate_variables(text, variables) ==
    IF text.t # "str" THEN text
    ELSE StrV(InterpolateLoop(text.v, FindAll(text.v, 1), variables))

(***************************************************************************)
(* Orchestrator._evaluate_structured_condition                             *)
(***************************************************************************)
\* dict.get(key, default) on a record
Get(rec, key, default) == IF key \in DOMAIN rec THEN rec[key] ELSE default

\* needle in hay (substring test of str.__contains__)
Contains(hay, needle) ==
    \E i \in 1..(Len(hay) + 1) :
        /\ i + Len(needle) - 1 <= Len(hay)
        /\ SubSeq(hay, i, i + Len(needle) - 1) = needle

StartsWith(s, prefix) ==
    Len(prefix) <= Len(s) /\ SubSeq(s, 1, Len(prefix)) = prefix

EndsWith(s, suffix) ==
    Len(suffix) <= Len(s) /\ SubSeq(s, Len(s) - Len(suffix) + 1, Len(s)) = suffix

DigitValue(c) ==
    CASE c = "0" -> 0 [] c = "1" -> 1 [] c = "2" -> 2 [] c = "3" -> 3
      [] c = "4" -> 4 [] c = "5" -> 5 [] c = "6" -> 6 [] c = "7" -> 7
      [] c = "8" -> 8 [] c = "9" -> 9

RECURSIVE DigitsValue(_)
DigitsValue(s) ==
    IF s = <<>> THEN 0
    ELSE 10 * DigitsValue(SubSeq(s, 1, Len(s) - 1)) + DigitValue(s[Len(s)])

\* float(val): [ok |-> FALSE] stands for ValueError / TypeError.  Strings are
\* digit strings or text without a sign, point or exponent, so a string converts
\* exactly when it is a non-empty run of digits.
PyFloat(val) ==
    CASE val.t = "bool" -> [ok |-> TRUE, v |-> IF val.v THEN 1 ELSE 0]
      [] val.t = "none" -> [ok |-> FALSE, v |-> 0]
      [] val.t = "list" -> [ok |-> FALSE, v |-> 0]
      [] val.t = "int" -> [ok |-> TRUE, v |-> val.v]
      [] val.t = "str" ->
            IF val.v # <<>> /\ \A i \in 1..Len(val.v) : val.v[i] \in DigitChars
            THEN [ok |-> TRUE, v |-> DigitsValue(val.v)]
            ELSE [ok |-> FALSE, v |-> 0]

\* the operator applied to the variable's value and the rule's value, with
\* lhs, rhs their lowered string forms and fl, fr their float conversions
EvaluateOperator(operator, variable_value, lhs, rhs, fl, fr) ==
        CASE operator \in {"equals", "=="} -> lhs = rhs
          [] operator \in {"not_equals", "!="} -> lhs # rhs
          [] operator = "is_true" ->
                \/ variable_value.t = "bool" /\ variable_value.v
                \/ lhs = <<"t", "r", "u", "e">>
          [] operator = "is_false" ->
                \/ variable_value.t = "bool" /\ ~variable_value.v
                \/ lhs = <<"f", "a", "l", "s", "e">>
          [] operator = "contains" -> Contains(lhs, rhs)
          [] operator = "starts_with" -> StartsWith(lhs, rhs)
          [] operator = "ends_with" -> EndsWith(lhs, rhs)
          [] operator = "greater_than" -> fl.ok /\ fr.ok /\ fl.v > fr.v
          [] operator = "less_than" -> fl.ok /\ fr.ok /\ fl.v < fr.v
          [] operator = "greater_than_or_equal" -> fl.ok /\ fr.ok /\ fl.v >= fr.v
          [] operator = "less_than_or_equal" -> fl.ok /\ fr.ok /\ fl.v <= fr.v
          [] OTHER -> FALSE

\* the evaluation on the string forms as they are written
EvaluateOn_CaseSensitive(operator, variable_value, value) ==
    EvaluateOperator(operator, variable_value,
                     PyStr(variable_value), PyStr(value),
                     PyFloat(variable_value), PyFloat(value))

EvaluateOn(operator, variable_value, value) ==
    EvaluateOperator(operator, variable_value,
                     Lower(PyStr(variable_value)), Lower(PyStr(value)),
                     PyFloat(variable_value), PyFloat(value))

_evaluate_structured_condition(rule, variables) ==
    EvaluateOn(Get(rule, "operator", "equals"),
               Get(variables, Get(rule, "variable", <<>>), StrV(<<>>)),
               Get(rule, "value", StrV(<<>>)))

(***************************************************************************)
(* utils.parse_function_call                                               *)
(***************************************************************************)
\* the character class \w
IsWordChar(c) == IsNameChar(c) /\ c # " "

RECURSIVE WordRun(_, _)
WordRun(s, i) ==
    IF i <= Len(s) /\ IsWordChar(s[i]) THEN 1 + WordRun(s, i + 1) ELSE 0

RECURSIVE LStrip(_)
LStrip(s) == IF s # <<>> /\ Head(s) = " " THEN LStrip(Tail(s)) ELSE s

RECURSIVE RStrip(_)
RStrip(s) ==
    IF s # <<>> /\ s[Len(s)] = " " THEN RStrip(SubSeq(s, 1, Len(s) - 1)) ELSE s

\* str.strip()
Strip(s) == RStrip(LStrip(s))

\* s.split(","), scanning from position i with the piece cur collected so far
RECURSIVE SplitComma(_, _, _)
SplitComma(s, i, cur) ==
    IF i > Len(s) THEN <<cur>>
    ELSE IF s[i] = "," THEN <<cur>> \o SplitComma(s, i + 1, <<>>)
    ELSE SplitComma(s, i + 1, Append(cur, s[i]))

\* one element of a list display read by ast.literal_eval; the strings here hold
\* no quote, sign or point, and no bracket but the empty display "[]", so the
\* literals are the naturals, the three constants and the empty list, and
\* anything else is a syntax error or a bare name
LiteralOfStripped(e) ==
    IF e # <<>> /\ (\A i \in 1..Len(e) : e[i] \in DigitChars)
          /\ (e[1] # "0" \/ \A i \in 1..Len(e) : e[i] = "0")
    THEN [ok |-> TRUE, v |-> IntV(DigitsValue(e))]
    ELSE IF e = <<"T", "r", "u", "e">> THEN [ok |-> TRUE, v |-> BoolV(TRUE)]
    ELSE IF e = <<"F", "a", "l", "s", "e">> THEN [ok |-> TRUE, v |-> BoolV(FALSE)]
    ELSE IF e = <<"N", "o", "n", "e">> THEN [ok |-> TRUE, v |-> NoneV]
    ELSE IF e = <<"[", "]">> THEN [ok |-> TRUE, v |-> ListV(<<>>)]
    ELSE [ok |-> FALSE, v |-> NoneV]

LiteralOf(piece) == LiteralOfStripped(Strip(piece))

\* ast.literal_eval(f'[{args_str}]') for a non-empty args_str
\* a trailing comma is allowed in a list display
ListItems(parts) ==
    IF Len(parts) > 1 /\ Strip(parts[Len(parts)]) = <<>>
    THEN SubSeq(parts, 1, Len(parts) - 1) ELSE parts

LiteralsOf(literals) ==
    IF \A i \in 1..Len(literals) : literals[i].ok
    THEN [ok |-> TRUE, v |-> [i \in 1..Len(literals) |-> literals[i].v]]
    ELSE [ok |-> FALSE, v |-> <<>>]

LiteralEvalItems(items) ==
    LiteralsOf([i \in 1..Len(items) |-> LiteralOf(items[i])])

LiteralEvalList(args_str) ==
    LiteralEvalItems(ListItems(SplitComma(args_str, 1, <<>>)))

\* returns (func_name, args); found = FALSE stands for (None, [])
\* the arguments parsed from a non-empty args_str, given its literal_eval
ParsedArgs(args_str, evaluated) ==
    IF evaluated.ok THEN evaluated.v ELSE <<StrV(args_str)>>

ParseArgs(func_name, args_str) ==
    IF args_str = <<>>
    THEN [found |-> TRUE, name |-> func_name, args |-> <<>>]
    ELSE [found |-> TRUE, name |-> func_name,
          args |-> ParsedArgs(args_str, LiteralEvalList(args_str))]

\* the match of r'(\w+)\((.*)\)$' on the stripped string s, n being the length
\* of its leading run of word characters
MatchCall(s, n) ==
    IF n >= 1 /\ Len(s) >= n + 2 /\ s[n + 1] = "(" /\ s[Len(s)] = ")"
    THEN ParseArgs(SubSeq(s, 1, n), Strip(SubSeq(s, n + 2, Len(s) - 1)))
    ELSE [found |-> FALSE, name |-> <<>>, args |-> <<>>]

ParseStripped(s) == MatchCall(s, WordRun(s, 1))

parse_function_call(call_string) == ParseStripped(Strip(call_string))

(***************************************************************************)
(* Tool registry                                                           *)
(***************************************************************************)
\* outcome of a call: exc = "" when it returned v, else the exception raised
Ok(v) == [exc |-> "", v |-> v]

Exc(e) == [exc |-> e, v |-> NoneV]

\* has_active_loans(user_id) of the loan example, on the mock table reduced to
\* the user "1" with loans and the user "2" without
has_active_loans(user_id) ==
    IF user_id.t = "list" THEN Exc("TypeError")
    ELSE Ok(BoolV(user_id.t = "str" /\ user_id.v = <<"1">>))

\* get_loan_count(user_id) of the loan example on the same table: the user "1"
\* has two loans
get_loan_count(user_id) ==
    IF user_id.t = "list" THEN Exc("TypeError")
    ELSE Ok(IntV(IF user_id.t = "str" /\ user_id.v = <<"1">> THEN 2 ELSE 0))

\* the builtin bool registered as a tool: at most one positional argument and
\* no keyword argument
bool(args, kwargs) ==
    IF kwargs # <<>> \/ Len(args) > 1 THEN Exc("TypeError")
    ELSE IF args = <<>> THEN Ok(BoolV(FALSE))
    ELSE Ok(BoolV(Truthy(args[1])))

\* the parameter names of the registered callables
ToolParams(tool) ==
    CASE tool = "has_active_loans" -> <<"user_id">>
      [] tool = "get_loan_count" -> <<"user_id">>

\* tools[name](*args, **kwargs): binds the arguments to the parameters (none of
\* them has a default) and runs the callable
RunTool(tool, bound) ==
    CASE tool = "has_active_loans" -> has_active_loans(bound[1])
      [] tool = "get_loan_count" -> get_loan_count(bound[1])

BindAndRun(tool, params, args, kwargs) ==
    IF \/ Len(args) > Len(params)
       \/ DOMAIN kwargs # {params[i] : i \in (Len(args) + 1)..Len(params)}
    THEN Exc("TypeError")
    ELSE RunTool(tool, [i \in 1..Len(params) |->
                          IF i <= Len(args) THEN args[i] ELSE kwargs[params[i]]])

ToolApply(tool, args, kwargs) ==
    IF tool = "bool" THEN bool(args, kwargs)
    ELSE BindAndRun(tool, ToolParams(tool), args, kwargs)

\* A registry holds two dictionaries keyed by name: the callables (tools) and
\* the definitions.  list_tools() gives the definitions in the order of the
\* dictionary, so definitions is the sequence of its values in insertion
\* order.
\* the orchestrator built without a tool registry (tool_registry=None)
NoRegistry == [present |-> FALSE, tools |-> <<>>, definitions |-> <<>>]

\* ToolRegistry(): ToolRegistry.__init__
ToolRegistry_init == [present |-> TRUE, tools |-> <<>>, definitions |-> <<>>]

\* inspect.signature(func) finds a signature: not for the builtin types
HasSignature(func) == func # "bool"

\* func.__doc__
DocOf(func) ==
    CASE func = "has_active_loans" ->
            "Simple boolean check if user has any active loans."
      [] func = "get_loan_count" ->
            "Get the number of active loans for a user."
      [] OTHER -> ""

\* _get_type_string of the return annotation
ReturnTypeOf(func) ==
    CASE func = "has_active_loans" -> "boolean"
      [] func = "get_loan_count" -> "number"
      [] OTHER -> "any"

\* description or func.__doc__ or f"Tool {name}"
DescriptionOf(name, func, description, kind) ==
    IF description # "" THEN <<description>>
    ELSE IF DocOf(func) # "" THEN <<DocOf(func)>>
    ELSE <<kind, name>>

\* the ToolDefinition built by register
ToolDefinition(name, func, description) ==
    [id |-> name, name |-> name,
     description |-> DescriptionOf(name, func, description, "Tool "),
     arguments |-> ToolParams(func), return_type |-> ReturnTypeOf(func)]

\* self.definitions[name] = definition on the definitions in insertion order:
\* in place of the entry of that name, else at the end
DictSet(definitions, name, definition) ==
    IF \E i \in 1..Len(definitions) : definitions[i].name = name
    THEN [i \in 1..Len(definitions) |->
            IF definitions[i].name = name THEN definition ELSE definitions[i]]
    ELSE Append(definitions, definition)

\* self.tools[name] = func
WithTool(registry, name, func) ==
    [registry EXCEPT !.tools = [k \in DOMAIN registry.tools \cup {name} |->
                                   IF k = name THEN func ELSE registry.tools[k]]]

\* ToolRegistry.register: the callable is stored first; the definition is
\* built from the signature, which raises ValueError for a callable that has
\* none, and stored last
ToolRegistry_register(registry, name, func, description) ==
    IF ~HasSignature(func)
    THEN [registry |-> WithTool(registry, name, func), exc |-> "ValueError"]
    ELSE [registry |->
            [WithTool(registry, name, func) EXCEPT
                !.definitions = DictSet(@, name,
                                        ToolDefinition(name, func, description))],
          exc |-> ""]

\* ToolRegistry.list_tools
list_tools(registry) == registry.definitions

\* ToolRegistry.has_tool
has_tool(registry, name) == name \in DOMAIN registry.tools

\* call answering None for a name that is not registered
ToolRegistry_call_Lenient(registry, tool_name, args, kwargs) ==
    IF tool_name \notin DOMAIN registry.tools THEN Ok(NoneV)
    ELSE ToolApply(registry.tools[tool_name], args, kwargs)

\* ToolRegistry.call
ToolRegistry_call(registry, tool_name, args, kwargs) ==
    IF tool_name \notin DOMAIN registry.tools THEN Exc("ValueError")
    ELSE ToolApply(registry.tools[tool_name], args, kwargs)

\* tool_registry.execute_tool_call; found = FALSE stands for the result None
\* that makes the caller fall back to a direct assignment
\* the execution of the parsed call
ExecuteParsed(parsed, registry) ==
    IF ~parsed.found THEN Ok(NoneV)
    ELSE IF has_tool(registry, parsed.name)
    THEN ToolRegistry_call(registry, parsed.name, parsed.args, <<>>)
    ELSE Ok(NoneV)

\* the parsing of the interpolated call string; a call string that is not a
\* string has no strip()
ExecuteInterpolated(interpolated_call, registry) ==
    IF interpolated_call.t # "str" THEN Exc("AttributeError")
    ELSE ExecuteParsed(parse_function_call(interpolated_call.v), registry)

execute_tool_call(call_string, variables, registry) ==
    ExecuteInterpolated(interpolate_variables(call_string, variables), registry)

(***************************************************************************)
(* Orchestrator: the parsed workflow                                       *)
(***************************************************************************)
\* a field of the document as the heap has it: the content of a list object
\* that was appended to
FieldNow(val, objects) ==
    IF "id" \in DOMAIN val /\ val.id \in DOMAIN objects
    THEN [val EXCEPT !.v = objects[val.id]]
    ELSE val

\* an action of the document as the heap has it
RECURSIVE ActionNow(_, _)
ActionNow(a, objects) ==
    IF a.type = "GOTO_NODE" THEN a
    ELSE [key \in DOMAIN a |->
            IF key \in {"type", "actionArgs"} THEN a[key]
            ELSE IF key = "rules"
            THEN [r \in 1..Len(a.rules) |->
                    [f \in DOMAIN a.rules[r] |->
                        IF f \in {"then", "else"}
                        THEN [i \in 1..Len(a.rules[r][f]) |->
                                ActionNow(a.rules[r][f][i], objects)]
                        ELSE a.rules[r][f]]]
            ELSE FieldNow(a[key], objects)]

\* self.workflow once the calls have changed the list objects in objects
WorkflowNow(doc, objects) ==
    IF objects = <<>> THEN doc
    ELSE [nodes |-> [n \in 1..Len(doc.nodes) |->
            [doc.nodes[n] EXCEPT !.blocks =
                [b \in 1..Len(doc.nodes[n].blocks) |->
                    ActionNow(doc.nodes[n].blocks[b], objects)]]]]

\* self.node_order
node_order == [i \in 1..Len(wf.nodes) |-> wf.nodes[i].id]

\* self.nodes: a later node with the same id replaces an earlier one
nodes ==
    [id \in {wf.nodes[i].id : i \in 1..Len(wf.nodes)} |->
        wf.nodes[CHOOSE i \in 1..Len(wf.nodes) :
                    /\ wf.nodes[i].id = id
                    /\ \A j \in 1..Len(wf.nodes) : wf.nodes[j].id = id => j <= i]]

(***************************************************************************)
(* Session state                                                           *)
(*   current_node_id      "" when the key is absent (or holds a falsy id)  *)
(*   current_block_index  NoIndex when the key is absent                   *)
(*   variables            the mapping name -> value, <<>> when empty       *)
(*   pending_action       NoPending when the key is absent                 *)
(* and, not a key of the dictionary but part of what the calls made with   *)
(* the session have done to the heap:                                      *)
(*   objects              the content of every list object of the workflow *)
(*                        document that was appended to, by id             *)
(***************************************************************************)
NoNode == ""

NoIndex == -1

NoPending == [type |-> "NO_PENDING_ACTION"]

EmptySession ==
    [current_node_id |-> NoNode, current_block_index |-> NoIndex,
     variables |-> <<>>, pending_action |-> NoPending, objects |-> <<>>]

\* the key of the variable mapping named by a string value
VarKey(name) == name.v

\* Orchestrator.set_variable
set_variable(ss, var_name, value) ==
    [ss EXCEPT !.variables =
        [k \in DOMAIN ss.variables \cup {var_name} |->
            IF k = var_name THEN value ELSE ss.variables[k]]]

\* the outcome of a call that mutates the session: the session as the call left
\* it and the exception it raised ("" when it returned)
Done(ss) == [ss |-> ss, exc |-> ""]

Fail(ss, e) == [ss |-> ss, exc |-> e]

\* Orchestrator.set_variable_from_source
\* the assignment once the tool call has given result
SetFromResult(ss, var_name, source, result) ==
    IF result.exc # "" THEN Fail(ss, result.exc)
    ELSE IF result.v.t # "none" THEN Done(set_variable(ss, var_name, result.v))
    ELSE Done(set_variable(ss, var_name, source))

\* the assignment of the source as it is, whatever it reads as
set_variable_from_source_Direct(ss, var_name, source) ==
    Done(set_variable(ss, var_name, source))

set_variable_from_source(ss, var_name, source) ==
    IF tool_registry.present
    THEN SetFromResult(ss, var_name, source,
                       execute_tool_call(source, ss.variables, tool_registry))
    ELSE Done(set_variable(ss, var_name, source))

\* val as it reads once the list object obj was changed in place: obj
\* wherever val refers to it
RECURSIVE Refreshed(_, _)
Refreshed(val, obj) ==
    IF val.t # "list" THEN val
    ELSE IF "id" \in DOMAIN val /\ val.id = obj.id THEN obj
    ELSE [val EXCEPT !.v = [i \in 1..Len(val.v) |-> Refreshed(val.v[i], obj)]]

\* list.append on a list object of the document: every variable that refers
\* to the object shows the new content, and so does the document
MutatedInPlace(ss, target_var) ==
    IF "id" \notin DOMAIN ss.variables[target_var] THEN ss
    ELSE [ss EXCEPT
            !.variables = [k \in DOMAIN ss.variables |->
                Refreshed(ss.variables[k], ss.variables[target_var])],
            !.objects = [i \in DOMAIN ss.objects
                                 \cup {ss.variables[target_var].id} |->
                IF i = ss.variables[target_var].id
                THEN ss.variables[target_var].v ELSE ss.objects[i]]]

\* Orchestrator.update_variable:
\* session_state['variables'][target_var].append(source_var)
AppendTo(ss, target_var, source_var) ==
    IF ss.variables[target_var].t # "list"
    THEN Fail(ss, "AttributeError")
    ELSE Done(MutatedInPlace(
             set_variable(ss, target_var,
                 [ss.variables[target_var] EXCEPT !.v = Append(@, source_var)]),
             target_var))

\* update_variable appending whatever the operation is
update_variable_AnyOperation(ss, target_var, source_var, operation) ==
    AppendTo(IF target_var \notin DOMAIN ss.variables
             THEN set_variable(ss, target_var, ListV(<<>>)) ELSE ss,
             target_var, source_var)

update_variable(ss, target_var, source_var, operation) ==
    IF operation.t = "str" /\ operation.v = <<"a", "p", "p", "e", "n", "d">>
    THEN AppendTo(IF target_var \notin DOMAIN ss.variables
                  THEN set_variable(ss, target_var, ListV(<<>>)) ELSE ss,
                  target_var, source_var)
    ELSE Done(ss)

\* the assignment once the criteria tool has given result
SetAnalysis(ss, output_var, result) ==
    IF result.exc # "" THEN Fail(ss, result.exc)
    ELSE Done(set_variable(ss, output_var, result.v))

\* the analysis that never consults the registry
analyze_and_set_variable_AlwaysFalse(ss, input_val, output_var, criteria) ==
    Done(set_variable(ss, output_var, BoolV(FALSE)))

\* Orchestrator.analyze_and_set_variable
analyze_and_set_variable(ss, input_val, output_var, criteria) ==
    IF Truthy(criteria) /\ tool_registry.present
          /\ criteria.t = "str" /\ has_tool(tool_registry, criteria.v)
    THEN SetAnalysis(ss, output_var,
             ToolRegistry_call(tool_registry, criteria.v, <<input_val>>, <<>>))
    ELSE Done(set_variable(ss, output_var, BoolV(FALSE)))

(***************************************************************************)
(* Action registry                                                         *)
(*   The callables of an action registry take the context (a dictionary    *)
(*   with the key 'variables', modelled like a session) and keyword        *)
(*   arguments.  The outcome of one is the context as it left it, the      *)
(*   value returned and the exception raised.                              *)
(***************************************************************************)
Gave(context, v) == [context |-> context, exc |-> "", v |-> v]

Threw(context, e) == [context |-> context, exc |-> e, v |-> NoneV]

\* context.setdefault('variables', {})[target] = value
Assign(context, key, value) ==
    [context EXCEPT !.variables =
        [k \in DOMAIN context.variables \cup {key} |->
            IF k = key THEN value ELSE context.variables[k]]]

\* built-in present_content
action_present_content(context, payload) ==
    Gave(context, interpolate_variables(payload, context.variables))

\* built-in await_user_input: f"AWAIT_INPUT:{target}"
action_await_user_input(context, target) ==
    Gave(context, StrV(<<"A", "W", "A", "I", "T", "_", "I", "N", "P", "U", "T", ":">>
                       \o PyStr(target)))

\* built-in set_variable, interpolated_value being the interpolated value
SetInterpolated(context, key, interpolated_value) ==
    Gave(Assign(context, key, interpolated_value), interpolated_value)

action_set_variable(context, target, value) ==
    SetInterpolated(context, VarKey(target),
                    interpolate_variables(value, context.variables))

\* built-in update_variable, "append" on a target that is bound: a list is
\* appended to in place, any other value becomes [value, interpolated_value]
AppendOrWrap(context, key, interpolated_value) ==
    IF context.variables[key].t = "list"
    THEN MutatedInPlace(
             Assign(context, key,
                    [context.variables[key] EXCEPT
                        !.v = Append(@, interpolated_value)]),
             key)
    ELSE Assign(context, key,
                ListV(<<context.variables[key], interpolated_value>>))

\* built-in update_variable once the value is interpolated
UpdateInterpolated(context, key, interpolated_value, operation) ==
    IF operation = StrV(<<"a", "p", "p", "e", "n", "d">>)
    THEN AppendOrWrap(IF key \notin DOMAIN context.variables
                      THEN Assign(context, key, ListV(<<>>)) ELSE context,
                      key, interpolated_value)
    ELSE Assign(context, key, interpolated_value)

\* return variables[target]
GaveVariable(context, key) == Gave(context, context.variables[key])

action_update_variable(context, target, value, operation) ==
    GaveVariable(
        UpdateInterpolated(context, VarKey(target),
                           interpolate_variables(value, context.variables),
                           operation),
        VarKey(target))

\* built-in goto_node: f"GOTO_NODE:{target}"
action_goto_node(context, target) ==
    Gave(context, StrV(<<"G", "O", "T", "O", "_", "N", "O", "D", "E", ":">>
                       \o PyStr(target)))

\* built-in end_workflow
action_end_workflow(context) ==
    Gave(context, StrV(<<"E", "N", "D", "_", "W", "O", "R", "K", "F", "L", "O", "W">>))

\* the six built-in verbs, in the order __init__ registers them
BuiltinActions ==
    <<"present_content", "await_user_input", "set_variable", "update_variable",
      "goto_node", "end_workflow">>

\* the keyword parameters of a callable after context: those without a default
RequiredParams(action) ==
    CASE action = "present_content" -> {"payload"}
      [] action = "set_variable" -> {"target", "value"}
      [] action = "update_variable" -> {"target", "value"}
      [] action = "goto_node" -> {"target"}
      [] OTHER -> {}

\* and the defaults of the others
DefaultParams(action) ==
    CASE action = "await_user_input" -> [target |-> StrV(<<>>)]
      [] action = "update_variable" ->
            [operation |-> StrV(<<"a", "p", "p", "e", "n", "d">>)]
      [] OTHER -> <<>>

\* the keyword arguments completed with the defaults
Bound(action, kwargs) ==
    [k \in DOMAIN kwargs \cup DOMAIN DefaultParams(action) |->
        IF k \in DOMAIN kwargs THEN kwargs[k] ELSE DefaultParams(action)[k]]

RunAction(action, context, bound) ==
    CASE action = "present_content" ->
            action_present_content(context, bound.payload)
      [] action = "await_user_input" ->
            action_await_user_input(context, bound.target)
      [] action = "set_variable" ->
            action_set_variable(context, bound.target, bound.value)
      [] action = "update_variable" ->
            action_update_variable(context, bound.target, bound.value,
                                   bound.operation)
      [] action = "goto_node" -> action_goto_node(context, bound.target)
      [] action = "end_workflow" -> action_end_workflow(context)

\* self.actions[action_name](context, **kwargs): the builtin bool takes no
\* keyword argument; the verbs bind the keyword arguments to their parameters
ActionApply(action, context, kwargs) ==
    IF action = "bool"
    THEN IF kwargs # <<>> THEN Threw(context, "TypeError")
         ELSE Gave(context, BoolV(context.variables # <<>>))
    ELSE IF \/ ~(RequiredParams(action) \subseteq DOMAIN kwargs)
            \/ ~(DOMAIN kwargs \subseteq
                    RequiredParams(action) \cup DOMAIN DefaultParams(action))
    THEN Threw(context, "TypeError")
    ELSE RunAction(action, context, Bound(action, kwargs))

\* the description each built-in verb is registered with
BuiltinDescription(action) ==
    CASE action = "present_content" ->
            "Present content to the user with variable interpolation"
      [] action = "await_user_input" ->
            "Wait for user input and store in specified variable"
      [] action = "set_variable" -> "Set a variable to a specific value"
      [] action = "update_variable" ->
            "Update a variable with append or set operation"
      [] action = "goto_node" -> "Navigate to another workflow node"
      [] action = "end_workflow" -> "End the workflow execution"

\* action.__doc__
ActionDocOf(action) ==
    CASE action = "present_content" ->
            "Present content to the user with variable interpolation."
      [] action = "await_user_input" ->
            "Signal that user input is needed and should be stored in target variable."
      [] action = "set_variable" ->
            "Set a variable to a specific value with interpolation."
      [] action = "update_variable" ->
            "Update a variable with append or set operation."
      [] action = "goto_node" -> "Signal navigation to another node."
      [] action = "end_workflow" -> "Signal end of workflow."
      [] OTHER -> ""

\* the parameters of a callable, in the order of its signature
ActionParams(action) ==
    CASE action = "present_content" -> <<"context", "payload">>
      [] action = "await_user_input" -> <<"context", "target">>
      [] action = "set_variable" -> <<"context", "target", "value">>
      [] action = "update_variable" ->
            <<"context", "target", "value", "operation">>
      [] action = "goto_node" -> <<"context", "target">>
      [] action = "end_workflow" -> <<"context">>

\* _get_type_string of the return annotation
ActionReturnType(action) ==
    IF action \in {"set_variable", "update_variable"} THEN "Any" ELSE "string"

\* the ActionDefinition built by register
ActionDefinition(name, action, description) ==
    [id |-> name, name |-> name,
     description |-> IF description # "" THEN <<description>>
                     ELSE IF ActionDocOf(action) # "" THEN <<ActionDocOf(action)>>
                     ELSE <<"Action ", name>>,
     arguments |-> ActionParams(action),
     return_type |-> ActionReturnType(action)]

\* self.actions[name] = action
WithAction(registry, name, action) ==
    [registry EXCEPT !.actions = [k \in DOMAIN registry.actions \cup {name} |->
                                     IF k = name THEN action
                                     ELSE registry.actions[k]]]

\* ActionRegistry.register: as ToolRegistry.register, the callable first and
\* the definition last, after the signature was read
ActionRegistry_register(registry, name, action, description) ==
    IF ~HasSignature(action)
    THEN [registry |-> WithAction(registry, name, action), exc |-> "ValueError"]
    ELSE [registry |->
            [WithAction(registry, name, action) EXCEPT
                !.definitions = DictSet(@, name,
                                    ActionDefinition(name, action, description))],
          exc |-> ""]

\* _register_builtin_actions: the first n built-in verbs registered
RECURSIVE RegisterBuiltins(_, _)
RegisterBuiltins(registry, n) ==
    IF n = 0 THEN registry
    ELSE ActionRegistry_register(RegisterBuiltins(registry, n - 1),
                                 BuiltinActions[n], BuiltinActions[n],
                                 BuiltinDescription(BuiltinActions[n])).registry

\* ActionRegistry(): ActionRegistry.__init__
ActionRegistry_init ==
    RegisterBuiltins([actions |-> <<>>, definitions |-> <<>>],
                     Len(BuiltinActions))

\* ActionRegistry.execute
ActionRegistry_execute(registry, action_name, context, kwargs) ==
    IF action_name \notin DOMAIN registry.actions
    THEN Threw(context, "ValueError")
    ELSE ActionApply(registry.actions[action_name], context, kwargs)

\* ActionRegistry.list_actions
list_actions(registry) == registry.definitions

(***************************************************************************)
(* Orchestrator._process_actions_internally                                *)
(***************************************************************************)
\* Orchestrator._interpolate_with_types
\* re.match(r'^\{([\w\s]+)\}$', s)
IsSinglePlaceholder(s) ==
    /\ Len(s) >= 3 /\ s[1] = "{" /\ s[Len(s)] = "}"
    /\ NameRun(s, 2) = Len(s) - 2

InterpolateStripped(value, s, variables) ==
    IF IsSinglePlaceholder(s) /\ SubSeq(s, 2, Len(s) - 1) \in DOMAIN variables
    THEN variables[SubSeq(s, 2, Len(s) - 1)]
    ELSE interpolate_variables(value, variables)

\* the interpolation that always gives text
_interpolate_with_types_Text(value, variables) ==
    interpolate_variables(value, variables)

_interpolate_with_types(value, variables) ==
    IF value.t # "str" THEN value
    ELSE InterpolateStripped(value, Strip(value.v), variables)

\* Orchestrator._interpolate_args_deep on an argument mapping whose values are
\* leaves
_interpolate_args_deep(args, variables) ==
    [k \in DOMAIN args |-> _interpolate_with_types(args[k], variables)]

\* the tool call of the action form without its try/except
SetFromTool_Uncaught(ss, target_var, result) ==
    IF result.exc = ""
    THEN Done(set_variable(ss, target_var, result.v))
    ELSE Fail(ss, result.exc)

\* the SET_VARIABLE branch: the try/except around the tool call of the action
\* form
SetFromTool(ss, target_var, result) ==
    IF result.exc = ""
    THEN Done(set_variable(ss, target_var, result.v))
    ELSE Done(set_variable(ss, target_var, NoneV))

ProcessSetVariable(action, ss) ==
    IF "target" \notin DOMAIN action THEN Fail(ss, "KeyError")
    ELSE IF "source" \in DOMAIN action
    THEN set_variable_from_source(ss, VarKey(action.target), action.source)
    ELSE IF "action" \in DOMAIN action
    THEN IF tool_registry.present /\ has_tool(tool_registry, action.action.v)
         THEN SetFromTool(ss, VarKey(action.target),
                  ToolRegistry_call(tool_registry, action.action.v, <<>>,
                      _interpolate_args_deep(Get(action, "actionArgs", <<>>),
                                             ss.variables)))
         ELSE Done(ss)
    ELSE Done(ss)

\* the id attached is a constant instead of a fresh uuid
WithId_Constant(action, action_id) ==
    [k \in DOMAIN action \cup {"id"} |-> IF k = "id" THEN 1 ELSE action[k]]

\* the AWAIT_USER_INPUT branch: the action with its generated id, which is also
\* what is stored as the pending action
WithId(action, action_id) ==
    [k \in DOMAIN action \cup {"id"} |-> IF k = "id" THEN action_id ELSE action[k]]

\* the loop over the actions; uuid is the next value uuid4 will return.
\* Result: the session, the client actions, the next uuid and the exception.
\* the branches with UPDATE_VARIABLE handed to the registry's built-in verb
ProcessInternal_ViaRegistry(action, action_type, ss) ==
    CASE action_type = "SET_VARIABLE" -> ProcessSetVariable(action, ss)
      [] action_type = "UPDATE_VARIABLE" ->
            IF {"target", "source", "operation"} \subseteq DOMAIN action
            THEN [ss |-> ActionRegistry_execute(action_registry,
                            "update_variable", ss,
                            [target |-> action.target, value |-> action.source,
                             operation |-> action.operation]).context,
                  exc |-> ActionRegistry_execute(action_registry,
                             "update_variable", ss,
                             [target |-> action.target, value |-> action.source,
                              operation |-> action.operation]).exc]
            ELSE Fail(ss, "KeyError")
      [] action_type = "ANALYZE_RESPONSE" ->
            IF {"input", "output_bool"} \subseteq DOMAIN action
            THEN analyze_and_set_variable(ss, action.input,
                     VarKey(action.output_bool), Get(action, "criteria", NoneV))
            ELSE Fail(ss, "KeyError")

\* the three branches that change the variables and return nothing to the
\* client
ProcessInternal(action, action_type, ss) ==
    CASE action_type = "SET_VARIABLE" -> ProcessSetVariable(action, ss)
      [] action_type = "UPDATE_VARIABLE" ->
            IF {"target", "source", "operation"} \subseteq DOMAIN action
            THEN update_variable(ss, VarKey(action.target),
                                 action.source, action.operation)
            ELSE Fail(ss, "KeyError")
      [] action_type = "ANALYZE_RESPONSE" ->
            IF {"input", "output_bool"} \subseteq DOMAIN action
            THEN analyze_and_set_variable(ss, action.input,
                     VarKey(action.output_bool), Get(action, "criteria", NoneV))
            ELSE Fail(ss, "KeyError")

\* one iteration on action (of kind action_type), r being the outcome of
\* ProcessInternal when the action is of one of its three kinds
RECURSIVE ProcessLoop(_, _, _, _)
\* the iteration that also hands the internal actions to the client
ProcessOne_ReturnsInternal(action, action_type, rest, ss, uuid, client_actions, r) ==
    IF action_type \in {"SET_VARIABLE", "UPDATE_VARIABLE", "ANALYZE_RESPONSE"}
    THEN IF r.exc # ""
         THEN [ss |-> r.ss, client_actions |-> <<>>, uuid |-> uuid, exc |-> r.exc]
         ELSE ProcessLoop(rest, r.ss, uuid, Append(client_actions, action))
    ELSE IF action_type = "AWAIT_USER_INPUT"
    THEN ProcessLoop(rest,
                     [ss EXCEPT !.pending_action = WithId(action, uuid)],
                     uuid + 1,
                     Append(client_actions, WithId(action, uuid)))
    ELSE ProcessLoop(rest, ss, uuid, Append(client_actions, action))

ProcessOne(action, action_type, rest, ss, uuid, client_actions, r) ==
    IF action_type \in {"SET_VARIABLE", "UPDATE_VARIABLE", "ANALYZE_RESPONSE"}
    THEN IF r.exc # ""
         THEN [ss |-> r.ss, client_actions |-> <<>>, uuid |-> uuid, exc |-> r.exc]
         ELSE ProcessLoop(rest, r.ss, uuid, client_actions)
    ELSE IF action_type = "AWAIT_USER_INPUT"
    THEN ProcessLoop(rest,
                     [ss EXCEPT !.pending_action = WithId(action, uuid)],
                     uuid + 1,
                     Append(client_actions, WithId(action, uuid)))
    ELSE ProcessLoop(rest, ss, uuid, Append(client_actions, action))

ProcessAction(action, action_type, rest, ss, uuid, client_actions) ==
    ProcessOne(action, action_type, rest, ss, uuid, client_actions,
               IF action_type \in {"SET_VARIABLE", "UPDATE_VARIABLE",
                                   "ANALYZE_RESPONSE"}
               THEN ProcessInternal(action, action_type, ss)
               ELSE Done(ss))

ProcessLoop(actions, ss, uuid, client_actions) ==
    IF actions = <<>>
    THEN [ss |-> ss, client_actions |-> client_actions, uuid |-> uuid, exc |-> ""]
    ELSE ProcessAction(Head(actions), Get(Head(actions), "type", "None"),
                       Tail(actions), ss, uuid, client_actions)

_process_actions_internally(actions, ss, uuid) ==
    ProcessLoop(actions, ss, uuid, <<>>)

(***************************************************************************)
(* Orchestrator.get_next_step                                              *)
(***************************************************************************)
END_WORKFLOW == [type |-> "END_WORKFLOW"]

\* The result of get_next_step: the session as the call left it, the returned
\* list, the next uuid and the exception raised ("" when it returned).  Two
\* more fields record what the call did: at, the position <<node, index>> of
\* the block whose actions were processed (NoPosition when none was), and
\* resolved, the list actions_to_perform of that block.  depth counts the
\* recursive self-calls ("return self.get_next_step(session_state)") made
\* before the call that produced the result.
NoPosition == <<NoNode, NoIndex>>

Returned(ss, actions, uuid) ==
    [ss |-> ss, actions |-> actions, uuid |-> uuid, exc |-> "",
     at |-> NoPosition, resolved |-> <<>>, depth |-> 0]

Raised(ss, uuid, e) ==
    [ss |-> ss, actions |-> <<>>, uuid |-> uuid, exc |-> e,
     at |-> NoPosition, resolved |-> <<>>, depth |-> 0]

\* the result of a recursive self-call, seen from the call that made it
Deeper(r) == [r EXCEPT !.depth = @ + 1]

\* the start that forgets to set the block index
StartAtFirstNode_NoIndex(ss) ==
    [ss EXCEPT !.current_node_id = node_order[1]]

\* the session positioned on the first declared node
StartAtFirstNode(ss) ==
    [ss EXCEPT !.current_node_id = node_order[1], !.current_block_index = 0]

\* an unknown node answered with an empty list
NodeNotFound_Empty(ss, uuid) == Returned(ss, <<>>, uuid)

\* the current node id has no node
NodeNotFound(ss, uuid) == Returned(ss, <<END_WORKFLOW>>, uuid)

\* self.node_order.index(current_node_id)
NodeIndex(node_id) == CHOOSE i \in 1..Len(node_order) :
    node_order[i] = node_id /\ \A j \in 1..(i - 1) : node_order[j] # node_id

\* current_node_index + 1 < len(self.node_order)
HasNextNode(node_id) == NodeIndex(node_id) + 1 <= Len(node_order)

\* the advance that keeps the block index of the node it leaves
MoveToNextNode_KeepIndex(ss) ==
    [ss EXCEPT !.current_node_id = node_order[NodeIndex(ss.current_node_id) + 1]]

\* the session positioned on the node declared after the current one
MoveToNextNode(ss) ==
    [ss EXCEPT !.current_node_id = node_order[NodeIndex(ss.current_node_id) + 1],
               !.current_block_index = 0]

\* the for/else over the rules of a CONDITION block, from rule i on
RECURSIVE RuleLoop(_, _, _)
RuleLoop(rules, i, variables) ==
    IF i > Len(rules)
    THEN Get(rules[Len(rules)], "else", <<>>)
    ELSE IF _evaluate_structured_condition(rules[i], variables)
         THEN Get(rules[i], "then", <<>>)
         ELSE RuleLoop(rules, i + 1, variables)

\* the loop without its break: the last true rule wins
ConditionActions_LastTrue(block, variables) ==
    IF \E i \in 1..Len(block.rules) :
           _evaluate_structured_condition(block.rules[i], variables)
    THEN Get(block.rules[CHOOSE i \in 1..Len(block.rules) :
                 /\ _evaluate_structured_condition(block.rules[i], variables)
                 /\ \A j \in (i + 1)..Len(block.rules) :
                        ~_evaluate_structured_condition(block.rules[j], variables)],
             "then", <<>>)
    ELSE Get(block.rules[Len(block.rules)], "else", <<>>)

\* the fallback taking the else of the first rule that has one
ConditionActions_AnyElse(block, variables) ==
    IF \E i \in 1..Len(block.rules) :
           _evaluate_structured_condition(block.rules[i], variables)
    THEN RuleLoop(block.rules, 1, variables)
    ELSE IF \E i \in 1..Len(block.rules) : "else" \in DOMAIN block.rules[i]
    THEN block.rules[CHOOSE i \in 1..Len(block.rules) :
             /\ "else" \in DOMAIN block.rules[i]
             /\ \A j \in 1..(i - 1) : "else" \notin DOMAIN block.rules[j]]["else"]
    ELSE <<>>

\* actions_to_perform of a CONDITION block with at least one rule
ConditionActions(block, variables) == RuleLoop(block.rules, 1, variables)

\* the copy that leaves the source of an action as the document has it
InterpolateAction_RawSource(action, variables) ==
    [key \in DOMAIN action |->
        IF key \in {"type", "source"} THEN action[key]
        ELSE IF Get(action, "type", "None") = "SET_VARIABLE"
                /\ key \in {"action", "actionArgs"}
        THEN action[key]
        ELSE interpolate_variables(action[key], variables)]

\* the copy that also interpolates the leaves of actionArgs, as text
InterpolateAction_EagerArgs(action, variables) ==
    [key \in DOMAIN action |->
        IF key = "type" THEN action[key]
        ELSE IF Get(action, "type", "None") = "SET_VARIABLE" /\ key = "action"
        THEN action[key]
        ELSE IF Get(action, "type", "None") = "SET_VARIABLE"
                /\ key = "actionArgs"
        THEN [k \in DOMAIN action[key] |->
                 interpolate_variables(action[key][k], variables)]
        ELSE interpolate_variables(action[key], variables)]

\* the copy of an action with its fields interpolated.  The kind of a block is
\* a brace-free word, which interpolation returns as it is.
InterpolateAction(action, variables) ==
    [key \in DOMAIN action |->
        IF key = "type" THEN action[key]
        ELSE IF Get(action, "type", "None") = "SET_VARIABLE"
                /\ key \in {"action", "actionArgs"}
        THEN action[key]
        ELSE interpolate_variables(action[key], variables)]

IsGoto(a) == Get(a, "type", "None") = "GOTO_NODE"

\* the navigation that keeps the block index of the node it leaves
Navigate_KeepIndex(ss, goto_action) ==
    IF "target" \notin DOMAIN goto_action THEN Fail(ss, "KeyError")
    ELSE Done([ss EXCEPT !.current_node_id = goto_action.target])

\* the position update "for the NEXT call":
\* the navigation to the target of goto_action
Navigate(ss, goto_action) ==
    IF "target" \notin DOMAIN goto_action THEN Fail(ss, "KeyError")
    ELSE Done([ss EXCEPT !.current_node_id = goto_action.target,
                         !.current_block_index = 0])

\* the position update that ignores the navigation action
UpdatePosition_AlwaysAdvance(ss, actions_to_perform) ==
    IF ss.current_block_index = NoIndex THEN Fail(ss, "KeyError")
    ELSE Done([ss EXCEPT !.current_block_index = @ + 1])

UpdatePosition(ss, actions_to_perform) ==
    IF \E i \in 1..Len(actions_to_perform) : IsGoto(actions_to_perform[i])
    THEN Navigate(ss, SelectSeq(actions_to_perform, IsGoto)[1])
    ELSE IF ss.current_block_index = NoIndex THEN Fail(ss, "KeyError")
    ELSE Done([ss EXCEPT !.current_block_index = @ + 1])

IsNotGoto(a) == ~IsGoto(a)

\* final_actions: the interpolated copies of the actions
InterpolateActions(actions, variables) ==
    [i \in 1..Len(actions) |-> InterpolateAction(actions[i], variables)]

\* what get_next_step returns once the actions were processed with outcome r
ReturnClientActions(r, at, actions_to_perform) ==
    [ss |-> r.ss, actions |-> r.client_actions, uuid |-> r.uuid,
     exc |-> r.exc, at |-> at, resolved |-> actions_to_perform, depth |-> 0]

\* the processing of final_actions in the session moved to its next position
ProcessMoved(moved, final_actions, uuid, at, actions_to_perform) ==
    IF moved.exc # "" THEN Raised(moved.ss, uuid, moved.exc)
    ELSE ReturnClientActions(
             _process_actions_internally(final_actions, moved.ss, uuid),
             at, actions_to_perform)

\* lines 293-329: from the separation of the GOTO action to the return
PerformActions(ss, actions_to_perform, variables, uuid, at) ==
    ProcessMoved(UpdatePosition(ss, actions_to_perform),
                 InterpolateActions(SelectSeq(actions_to_perform, IsNotGoto),
                                    variables),
                 uuid, at, actions_to_perform)

\* session_state.get('current_block_index', 0)
BlockIndex(ss) ==
    IF ss.current_block_index = NoIndex THEN 0 ELSE ss.current_block_index

\* "except ValueError" around the advance to the next node, the recursive call
\* included
CatchValueError(r) ==
    IF r.exc = "ValueError"
    THEN [r EXCEPT !.actions = <<END_WORKFLOW>>, !.exc = ""]
    ELSE r

RECURSIVE get_next_step(_, _)
\* the CONDITION block without the skip of an empty action list
ProcessCondition_NoSkip(ss, actions_to_perform, uuid) ==
    PerformActions(ss, actions_to_perform, ss.variables, uuid,
                   <<ss.current_node_id, BlockIndex(ss)>>)

\* the skip that passes over the block after the empty CONDITION too
ProcessCondition_SkipTwo(ss, actions_to_perform, uuid) ==
    IF actions_to_perform = <<>>
    THEN IF ss.current_block_index = NoIndex
         THEN Raised(ss, uuid, "KeyError")
         ELSE Deeper(get_next_step([ss EXCEPT !.current_block_index = @ + 2],
                                   uuid))
    ELSE PerformActions(ss, actions_to_perform, ss.variables, uuid,
                        <<ss.current_node_id, BlockIndex(ss)>>)

\* a CONDITION block resolved to actions_to_perform
ProcessCondition(ss, actions_to_perform, uuid) ==
    IF actions_to_perform = <<>>
    THEN IF ss.current_block_index = NoIndex
         THEN Raised(ss, uuid, "KeyError")
         ELSE Deeper(get_next_step([ss EXCEPT !.current_block_index = @ + 1],
                                   uuid))
    ELSE PerformActions(ss, actions_to_perform, ss.variables, uuid,
                        <<ss.current_node_id, BlockIndex(ss)>>)

\* the block at the current position
ProcessBlock(ss, block, uuid) ==
    IF block.type = "CONDITION"
    THEN IF block.rules = <<>> THEN Raised(ss, uuid, "IndexError")
         ELSE ProcessCondition(ss, ConditionActions(block, ss.variables), uuid)
    ELSE PerformActions(ss, <<block>>, ss.variables, uuid,
                        <<ss.current_node_id, BlockIndex(ss)>>)

get_next_step(ss, uuid) ==
    IF ss.current_node_id = NoNode
    THEN IF node_order = <<>> THEN Raised(ss, uuid, "IndexError")
         ELSE Deeper(get_next_step(StartAtFirstNode(ss), uuid))
    ELSE IF ss.current_node_id \notin DOMAIN nodes THEN NodeNotFound(ss, uuid)
    ELSE IF BlockIndex(ss) >= Len(nodes[ss.current_node_id].blocks)
    THEN IF HasNextNode(ss.current_node_id)
         THEN CatchValueError(Deeper(get_next_step(MoveToNextNode(ss), uuid)))
         ELSE Returned(ss, <<END_WORKFLOW>>, uuid)
    ELSE ProcessBlock(ss, nodes[ss.current_node_id].blocks[BlockIndex(ss) + 1],
                      uuid)

(***************************************************************************)
(* Orchestrator.process_user_response                                      *)
(***************************************************************************)
\* the response that sends the session back to the first block of its node
AcceptResponse_Restart(ss, target_var, response) ==
    IF ss.current_block_index = NoIndex
    THEN Fail([(IF Truthy(target_var)
                THEN set_variable(ss, VarKey(target_var), response) ELSE ss)
               EXCEPT !.pending_action = NoPending], "KeyError")
    ELSE Done([(IF Truthy(target_var)
                THEN set_variable(ss, VarKey(target_var), response) ELSE ss)
               EXCEPT !.pending_action = NoPending,
                      !.current_block_index = 0])

\* the effect of a response that matches pending_action
AcceptResponse(ss, target_var, response) ==
    IF ss.current_block_index = NoIndex
    THEN Fail([(IF Truthy(target_var)
                THEN set_variable(ss, VarKey(target_var), response) ELSE ss)
               EXCEPT !.pending_action = NoPending], "KeyError")
    ELSE Done([(IF Truthy(target_var)
                THEN set_variable(ss, VarKey(target_var), response) ELSE ss)
               EXCEPT !.pending_action = NoPending,
                      !.current_block_index = @ + 1])

\* process_user_response leaving the pending action in the session
process_user_response_KeepPending(ss, action_id, response) ==
    IF ss.pending_action # NoPending /\ "id" \in DOMAIN ss.pending_action
          /\ ss.pending_action.id = action_id
    THEN Done([(IF Truthy(Get(ss.pending_action, "target", NoneV))
                THEN set_variable(ss, VarKey(ss.pending_action.target), response)
                ELSE ss)
               EXCEPT !.current_block_index = @ + 1])
    ELSE Done(ss)

\* process_user_response losing the "+= 1"
process_user_response_NoAdvance(ss, action_id, response) ==
    IF ss.pending_action # NoPending /\ "id" \in DOMAIN ss.pending_action
          /\ ss.pending_action.id = action_id
    THEN Done([(IF Truthy(Get(ss.pending_action, "target", NoneV))
                THEN set_variable(ss, VarKey(ss.pending_action.target), response)
                ELSE ss)
               EXCEPT !.pending_action = NoPending])
    ELSE Done(ss)

\* process_user_response accepting any id while an action is pending
process_user_response_AnyId(ss, action_id, response) ==
    IF ss.pending_action # NoPending
    THEN AcceptResponse(ss, Get(ss.pending_action, "target", NoneV), response)
    ELSE Done(ss)

process_user_response(ss, action_id, response) ==
    IF ss.pending_action # NoPending /\ "id" \in DOMAIN ss.pending_action
          /\ ss.pending_action.id = action_id
    THEN AcceptResponse(ss, Get(ss.pending_action, "target", NoneV), response)
    ELSE Done(ss)

(***************************************************************************)
(* Workflow documents, registries and caller inputs                        *)
(***************************************************************************)
PRESENT(payload) == [type |-> "PRESENT_CONTENT", payload |-> StrV(payload)]

AWAIT(target) == [type |-> "AWAIT_USER_INPUT", target |-> StrV(target)]

GOTO(target) == [type |-> "GOTO_NODE", target |-> target]

\* the end-to-end scenario: greet, ask, end; the prompt of the question and the
\* greeting carry a placeholder, and a question without a target and one more
\* block follow the question
WfScenario ==
    [nodes |-> <<
        [id |-> "n1", blocks |-> <<
            PRESENT(<<"h", "{", "N", "}">>),
            [type |-> "AWAIT_USER_INPUT", target |-> StrV(<<"N">>),
             prompt |-> StrV(<<"q", "{", "N", "}">>)],
            [type |-> "AWAIT_USER_INPUT"],
            PRESENT(<<"b">>)>>],
        [id |-> "n2", blocks |-> <<END_WORKFLOW>>]>>]

\* a question whose prompt shows the previous answer, then CONDITION blocks:
\* overlapping rules, an else on the last rule and on another
\* rule, a branch with two questions, a branch that leaves for a node that does
\* not exist, and a loop back to the first node
WfBranch ==
    [nodes |-> <<
        [id |-> "n1", blocks |-> <<
            [type |-> "AWAIT_USER_INPUT", target |-> StrV(<<"x">>),
             prompt |-> StrV(<<"{", "x", "}">>)],
            [type |-> "CONDITION", rules |-> <<
                [variable |-> <<"x">>, operator |-> "equals", value |-> StrV(<<"a">>),
                 then |-> <<PRESENT(<<"A">>)>>, else |-> <<PRESENT(<<"D">>)>>],
                [variable |-> <<"x">>, operator |-> "not_equals", value |-> StrV(<<"b">>),
                 then |-> <<PRESENT(<<"B">>)>>, else |-> <<PRESENT(<<"C">>)>>]>>],
            [type |-> "CONDITION", rules |-> <<
                [variable |-> <<"x">>, operator |-> "equals", value |-> StrV(<<"a">>),
                 then |-> <<AWAIT(<<"y">>), AWAIT(<<"x">>)>>,
                 else |-> <<PRESENT(<<"D">>)>>],
                [variable |-> <<"x">>, operator |-> "equals", value |-> StrV(<<"b">>),
                 then |-> <<PRESENT(<<"E">>), GOTO("zz")>>]>>],
            PRESENT(<<"{", "x", "}", "{", "y", "}">>)>>],
        [id |-> "n2", blocks |-> <<
            [type |-> "SET_VARIABLE", target |-> StrV(<<"w">>),
             source |-> StrV(<<"{", "w", "}", "{", "x", "}">>)],
            GOTO("n1")>>]>>]

UPDATE(target, source, operation) ==
    [type |-> "UPDATE_VARIABLE", target |-> StrV(target), source |-> StrV(source),
     operation |-> StrV(operation)]

\* SET_VARIABLE in its source form
SET_SOURCE(target, source) ==
    [type |-> "SET_VARIABLE", target |-> StrV(target), source |-> StrV(source)]

\* SET_VARIABLE in its action form, calling the tool "h" with one named argument
SET_ACTION(target, arg, value) ==
    [type |-> "SET_VARIABLE", target |-> StrV(target), action |-> StrV(<<"h">>),
     actionArgs |-> (arg :> StrV(value))]

\* a block of a kind the engine does not know
NOTE == [type |-> "NOTE", payload |-> StrV(<<"{", "u", "}">>)]

\* the variable blocks around one question: appends, an analysis, tool calls in
\* both forms with arguments the tool accepts and arguments it rejects, a
\* CONDITION with an empty 'then' list, with a list mixing internal, client
\* and navigation actions, and with an append to a variable holding a string
WfTools ==
    [nodes |-> <<
        [id |-> "n1", blocks |-> <<
            AWAIT(<<"u">>),
            UPDATE(<<"L">>, <<"{", "u", "}">>, <<"a", "p", "p", "e", "n", "d">>),
            UPDATE(<<"L">>, <<"{", "u", "}">>, <<"a", "p", "p", "e", "n", "d">>),
            [type |-> "ANALYZE_RESPONSE", input |-> StrV(<<"{", "u", "}">>),
             criteria |-> StrV(<<"h">>), output_bool |-> StrV(<<"f">>)],
            SET_ACTION(<<"r">>, "user_id", <<"{", "L", "}">>),
            SET_ACTION(<<"r">>, "user_id", <<"{", "u", "}">>),
            [type |-> "CONDITION", rules |-> <<
                [variable |-> <<"u">>, operator |-> "equals", value |-> StrV(<<"a">>),
                 then |-> <<>>],
                [variable |-> <<"f">>, operator |-> "is_true",
                 then |-> <<SET_SOURCE(<<"t">>, <<"{", "f", "}">>), GOTO("n2"),
                            PRESENT(<<"{", "u", "}">>), NOTE>>],
                [variable |-> <<"u">>, operator |-> "equals", value |-> StrV(<<"b">>),
                 then |-> <<UPDATE(<<"u">>, <<"x">>, <<"a", "p", "p", "e", "n", "d">>),
                            PRESENT(<<"p">>)>>,
                 else |-> <<UPDATE(<<"z">>, <<"y">>, <<"s", "e", "t">>)>>]>>],
            SET_SOURCE(<<"t">>, <<"h", "(", "{", "u", "}", ")">>),
            [type |-> "ANALYZE_RESPONSE", input |-> ListV(<<>>),
             criteria |-> StrV(<<"h">>), output_bool |-> StrV(<<"f">>)],
            [type |-> "ANALYZE_RESPONSE", input |-> StrV(<<"{", "u", "}">>),
             output_bool |-> StrV(<<"g">>)],
            [type |-> "ANALYZE_RESPONSE", input |-> StrV(<<"{", "u", "}">>),
             criteria |-> StrV(<<"k">>), output_bool |-> StrV(<<"g">>)],
            SET_SOURCE(<<"t">>, <<"h", "(", "[", "]", ")">>)>>],
        [id |-> "n2", blocks |-> <<PRESENT(<<"e">>), END_WORKFLOW>>]>>]

\* the workflow document without nodes
WfEmpty == [nodes |-> <<>>]

\* a CONDITION whose only rule tests a variable that is never bound and has no
\* 'else': it resolves to the empty list
SKIP ==
    [type |-> "CONDITION", rules |-> <<
        [variable |-> <<"q">>, operator |-> "equals", value |-> StrV(<<"a">>),
         then |-> <<PRESENT(<<"p">>)>>]>>]

\* blocks that give the client nothing, a node without blocks, and one message
\* at the end of the third node
WfChain ==
    [nodes |-> <<
        [id |-> "n1", blocks |-> <<SKIP, SKIP>>],
        [id |-> "n2", blocks |-> <<>>],
        [id |-> "n3", blocks |-> <<SKIP, PRESENT(<<"p">>)>>]>>]

\* two nodes that send to each other, with no client-facing block on the way
WfCycle ==
    [nodes |-> <<
        [id |-> "n1", blocks |-> <<GOTO("n2")>>],
        [id |-> "n2", blocks |-> <<SET_SOURCE(<<"c">>, <<"x">>), GOTO("n1")>>]>>]

\* a SET_VARIABLE whose source is a list of the document, an append to the
\* variable it assigned, and the way back to the first block
WfShared ==
    [nodes |-> <<
        [id |-> "n1", blocks |-> <<
            [type |-> "SET_VARIABLE", target |-> StrV(<<"L">>),
             source |-> DocList("o1", <<StrV(<<"k">>)>>)],
            UPDATE(<<"L">>, <<"x">>, <<"a", "p", "p", "e", "n", "d">>),
            AWAIT(<<"L">>),
            GOTO("n1")>>]>>]

\* an END_WORKFLOW block in the middle of the first node, with a message after
\* it and a question in the node that follows
WfEnd ==
    [nodes |-> <<
        [id |-> "n1", blocks |-> <<PRESENT(<<"p">>), END_WORKFLOW,
                                   PRESENT(<<"q">>)>>],
        [id |-> "n2", blocks |-> <<AWAIT(<<"u">>)>>]>>]

\* a list whose first actions assign the answer to v and the text "h(" to c,
\* and whose later actions read v in a message, in an argument tree and in a
\* direct source, and c in a source that reads as a call once c is bound; the
\* node is run again, so that v and c are unbound on the first pass and bound
\* on the later ones
WfOrder ==
    [nodes |-> <<
        [id |-> "n1", blocks |-> <<
            AWAIT(<<"u">>),
            PRESENT(<<"p">>),
            [type |-> "CONDITION", rules |-> <<
                [variable |-> <<"u">>, operator |-> "not_equals",
                 value |-> StrV(<<"z">>),
                 then |-> <<SET_SOURCE(<<"v">>, <<"{", "u", "}">>),
                            SET_SOURCE(<<"c">>, <<"h", "(">>),
                            PRESENT(<<"{", "v", "}">>),
                            SET_SOURCE(<<"s">>, <<"{", "c", "}", "1", ")">>),
                            SET_ACTION(<<"r">>, "user_id", <<"{", "v", "}">>),
                            SET_SOURCE(<<"d">>, <<"{", "v", "}">>)>>]>>],
            GOTO("n1")>>]>>]

Workflows ==
    {WfScenario, WfBranch, WfTools, WfEmpty, WfChain, WfCycle, WfShared, WfEnd,
     WfOrder}

\* the registry of the loan example, with has_active_loans registered as "h"
LoanRegistry ==
    ToolRegistry_register(ToolRegistry_init, <<"h">>, "has_active_loans",
        "Simple boolean check if user has any active loans").registry

ToolRegistries == {NoRegistry, LoanRegistry}

\* what the user answers
Responses == {StrV(<<"a">>), StrV(<<"b">>), StrV(<<"1">>)}

\* the ids a client may send back: every id that can be generated, and 0 for
\* an id that was never generated
ActionIds == 0..MaxIds

(***************************************************************************)
(* Specification                                                           *)
(*   last         the last call: its name, the session before it (pre), its *)
(*                arguments, what it returned or raised, the block it       *)
(*                processed (at, resolved), next_uuid and pending_at before *)
(*                it, the number of recursive self-calls it made, and the   *)
(*                ids that, before it, had changed the session through a    *)
(*                response (effective) or had lost the pending action to a  *)
(*                newer AWAIT_USER_INPUT (replaced)                         *)
(*   emitted_ids  the ids of the AWAIT_USER_INPUT actions returned so far   *)
(*   pending_at   the position of the block that created the pending action *)
(***************************************************************************)
\* the strings and the lists held by the variables stay within their bounds
WithinBounds(ss) ==
    \A k \in DOMAIN ss.variables :
        /\ ss.variables[k].t = "str" => Len(ss.variables[k].v) <= MaxStrLen
        /\ ss.variables[k].t = "list" => Len(ss.variables[k].v) <= MaxListLen

\* the ids of the AWAIT_USER_INPUT actions of a returned list, in order
RECURSIVE IdsOf(_)
IdsOf(actions) ==
    IF actions = <<>> THEN <<>>
    ELSE IF "id" \in DOMAIN Head(actions)
         THEN <<Head(actions).id>> \o IdsOf(Tail(actions))
         ELSE IdsOf(Tail(actions))

\* the ids whose response has changed the session, the last call included
EffectiveNow ==
    last.effective \cup
        (IF last.op = "process_user_response" /\ session # last.pre
         THEN {last.action_id} ELSE {})

\* the ids whose pending action a newer AWAIT_USER_INPUT has replaced, the
\* last call included
ReplacedNow ==
    last.replaced \cup
        (IF /\ last.op = "get_next_step"
            /\ last.pre.pending_action # NoPending
            /\ session.pending_action # last.pre.pending_action
            /\ "id" \in DOMAIN last.pre.pending_action
         THEN {last.pre.pending_action.id} ELSE {})

Init ==
    /\ wf \in Workflows
    /\ tool_registry \in ToolRegistries
    /\ action_registry = ActionRegistry_init
    /\ session = EmptySession
    /\ next_uuid = 1
    /\ emitted_ids = <<>>
    /\ pending_at = NoPosition
    /\ last = [op |-> "init", pre |-> EmptySession, action_id |-> 0,
               response |-> NoneV, actions |-> <<>>, exc |-> "",
               at |-> NoPosition, resolved |-> <<>>, uuid |-> 1,
               pending_at |-> NoPosition, depth |-> 0,
               effective |-> {}, replaced |-> {}]

\* the caller calls get_next_step(session)
GetNextStepReturns(r) ==
    /\ r.uuid <= MaxIds + 1
    /\ WithinBounds(r.ss)
    /\ session' = r.ss
    /\ next_uuid' = r.uuid
    /\ emitted_ids' = emitted_ids \o IdsOf(r.actions)
    /\ pending_at' = IF r.ss.pending_action # session.pending_action
                      THEN r.at ELSE pending_at
    /\ last' = [op |-> "get_next_step", pre |-> session, action_id |-> 0,
                response |-> NoneV, actions |-> r.actions, exc |-> r.exc,
                at |-> r.at, resolved |-> r.resolved, uuid |-> next_uuid,
                pending_at |-> pending_at, depth |-> r.depth,
                effective |-> EffectiveNow, replaced |-> ReplacedNow]
    /\ wf' = WorkflowNow(wf, r.ss.objects)
    /\ UNCHANGED <<tool_registry, action_registry>>

GetNextStep == GetNextStepReturns(get_next_step(session, next_uuid))

\* the caller calls process_user_response(session, action_id, response)
ProcessUserResponseReturns(action_id, response, r) ==
    /\ session' = r.ss
    /\ last' = [op |-> "process_user_response", pre |-> session,
                action_id |-> action_id, response |-> response,
                actions |-> <<>>, exc |-> r.exc,
                at |-> NoPosition, resolved |-> <<>>, uuid |-> next_uuid,
                pending_at |-> pending_at, depth |-> 0,
                effective |-> EffectiveNow, replaced |-> ReplacedNow]
    /\ pending_at' = IF r.ss.pending_action = NoPending
                      THEN NoPosition ELSE pending_at
    /\ UNCHANGED <<wf, tool_registry, action_registry, next_uuid, emitted_ids>>

ProcessUserResponse ==
    \E action_id \in ActionIds, response \in Responses :
        ProcessUserResponseReturns(action_id, response,
            process_user_response(session, action_id, response))

Next == GetNextStep \/ ProcessUserResponse

Spec == Init /\ [][Next]_vars

(***************************************************************************)
(* Properties                                                              *)
(***************************************************************************)
\* the session is on an existing block
OnBlock(ss) ==
    /\ ss.current_node_id \in DOMAIN nodes
    /\ ss.current_block_index >= 0
    /\ ss.current_block_index < Len(nodes[ss.current_node_id].blocks)

\* the block the session is on
BlockAt(ss) == nodes[ss.current_node_id].blocks[ss.current_block_index + 1]

Position(ss) == <<ss.current_node_id, ss.current_block_index>>

CalledGetNextStep == last.op = "get_next_step"

CalledProcessUserResponse == last.op = "process_user_response"

\* the call process_user_response(pre, action_id, _) meets a pending action
\* with that id
Matched ==
    /\ last.pre.pending_action # NoPending
    /\ last.pre.pending_action.id = last.action_id

\* C1: when get_next_step processes an AWAIT_USER_INPUT block at (n, i), the
\* session is still at (n, i) when it returns.
C1_AwaitKeepsPosition ==
    (/\ CalledGetNextStep
     /\ OnBlock(last.pre)
     /\ BlockAt(last.pre).type = "AWAIT_USER_INPUT")
    => Position(session) = Position(last.pre)

\* C2: process_user_response with the id of the pending action sets
\* variables[target] to the response when the pending action has a target,
\* removes the pending action and adds one to the block index; the node and
\* every other variable stay as they were.
C2_MatchedResponse ==
    (CalledProcessUserResponse /\ Matched) =>
        LET pending == last.pre.pending_action
            has_target == "target" \in DOMAIN pending /\ Truthy(pending.target)
            old == last.pre.variables
            new == session.variables
        IN  /\ last.exc = ""
            /\ session.pending_action = NoPending
            /\ session.current_block_index = last.pre.current_block_index + 1
            /\ session.current_node_id = last.pre.current_node_id
            /\ has_target =>
                  /\ DOMAIN new = DOMAIN old \cup {pending.target.v}
                  /\ new[pending.target.v] = last.response
                  /\ \A k \in DOMAIN old : k # pending.target.v => new[k] = old[k]
            /\ ~has_target =>
                  /\ DOMAIN new = DOMAIN old
                  /\ \A k \in DOMAIN old : new[k] = old[k]

\* reached: a matching response stored under a target while another variable
\* was bound
C2_Witness ==
    /\ CalledProcessUserResponse /\ Matched
    /\ "target" \in DOMAIN last.pre.pending_action
    /\ last.pre.pending_action.target.v \in DOMAIN session.variables
    /\ Cardinality(DOMAIN last.pre.variables \ {last.pre.pending_action.target.v}) >= 1
    /\ last.pre.current_block_index >= 1

\* C3: process_user_response without a pending action, or with an id other
\* than the pending one, changes nothing in the session and does not raise.
C3_UnmatchedResponse ==
    (CalledProcessUserResponse /\ ~Matched) =>
        /\ last.exc = ""
        /\ session = last.pre

\* reached: a response with a stale id while an action is pending
C3_Witness ==
    /\ CalledProcessUserResponse
    /\ last.pre.pending_action # NoPending
    /\ last.pre.pending_action.id # last.action_id
    /\ last.action_id # 0

\* C4: a pending action is present exactly while the workflow is suspended on
\* the AWAIT_USER_INPUT block that created it: while it is set the session is
\* at that block's position and get_next_step processes no other block.
C4_PendingMeansSuspended ==
    /\ session.pending_action # NoPending => Position(session) = pending_at
    /\ (/\ CalledGetNextStep
        /\ last.pre.pending_action # NoPending
        /\ last.at # NoPosition) => last.at = last.pending_at

IsAwait(a) == a.type = "AWAIT_USER_INPUT"

NoDuplicates(seq) ==
    \A i, j \in 1..Len(seq) : i # j => seq[i] # seq[j]

\* C5 as stated: every AWAIT_USER_INPUT action returned carries an id, the
\* pending action holds that id with the fields of the originating block, and
\* no id is emitted twice.
C5_PendingHoldsEveryAwait ==
    /\ NoDuplicates(emitted_ids)
    /\ (CalledGetNextStep /\ last.exc = "") =>
          \A i \in 1..Len(last.actions) : IsAwait(last.actions[i]) =>
              /\ "id" \in DOMAIN last.actions[i]
              /\ session.pending_action # NoPending
              /\ session.pending_action.id = last.actions[i].id
              /\ \E j \in 1..Len(last.resolved) :
                    /\ IsAwait(last.resolved[j])
                    /\ DOMAIN session.pending_action =
                           DOMAIN last.resolved[j] \cup {"id"}
                    /\ \A k \in DOMAIN last.resolved[j] :
                           session.pending_action[k] = last.resolved[j][k]

\* C5 amended: every AWAIT_USER_INPUT action returned carries an id that was
\* never emitted before; on return the pending action is a copy of the last
\* AWAIT_USER_INPUT action of the returned list: its id, and the fields of the
\* originating action interpolated against the variables.
C5_PendingIsLastAwait ==
    /\ NoDuplicates(emitted_ids)
    /\ (CalledGetNextStep /\ last.exc = "") =>
          LET awaits == SelectSeq(last.actions, IsAwait)
              origin == SelectSeq(last.resolved, IsAwait)
              n == Len(awaits)
          IN  /\ Len(origin) = n
              /\ \A i \in 1..n : "id" \in DOMAIN awaits[i]
              /\ Len(emitted_ids) >= n
              /\ \A i \in 1..n :
                    awaits[i].id = emitted_ids[Len(emitted_ids) - n + i]
              /\ n > 0 =>
                    /\ session.pending_action = awaits[n]
                    /\ DOMAIN awaits[n] = DOMAIN origin[n] \cup {"id"}
                    /\ \A k \in DOMAIN origin[n] \ {"type"} :
                           awaits[n][k] =
                               interpolate_variables(origin[n][k], last.pre.variables)

\* reached: a returned question whose prompt was interpolated, after an
\* earlier question had been emitted
C5_Witness ==
    /\ CalledGetNextStep /\ last.exc = ""
    /\ Len(last.actions) = 1 /\ IsAwait(last.actions[1])
    /\ "prompt" \in DOMAIN last.actions[1]
    /\ last.actions[1].prompt # last.resolved[1].prompt
    /\ Len(emitted_ids) >= 2
    /\ session.pending_action.id = last.actions[1].id

\* the current node id is set and names no node
OnUnknownNode(ss) ==
    ss.current_node_id # NoNode /\ ss.current_node_id \notin DOMAIN nodes

\* C6: when current_node_id is set but matches no node, get_next_step returns
\* exactly [END_WORKFLOW], raises nothing and leaves the session unchanged.
C6_UnknownNodeEnds ==
    (CalledGetNextStep /\ OnUnknownNode(last.pre)) =>
        /\ last.actions = <<END_WORKFLOW>>
        /\ last.exc = ""
        /\ session = last.pre

\* reached: get_next_step called after a GOTO_NODE to a node that does not
\* exist
C6_Witness ==
    /\ CalledGetNextStep
    /\ last.pre.current_node_id = "zz"
    /\ last.pre.current_block_index = 0

\* the outcome recorded in last and session equals the result r
SameOutcome(r) ==
    /\ r.ss = session
    /\ r.actions = last.actions
    /\ r.exc = last.exc

\* C7: get_next_step on an unstarted session gives the actions and the session
\* that get_next_step gives on the session positioned at (first node, 0); when
\* that block is PRESENT_CONTENT it is returned and the session is left at
\* (first node, 1).
C7_UnstartedIsFirstNode ==
    (/\ CalledGetNextStep
     /\ last.pre.current_node_id = NoNode
     /\ Len(wf.nodes) >= 1) =>
        /\ SameOutcome(get_next_step(
               [last.pre EXCEPT !.current_node_id = wf.nodes[1].id,
                                !.current_block_index = 0], last.uuid))
        /\ (/\ wf.nodes[1].blocks # <<>>
            /\ wf.nodes[1].blocks[1].type = "PRESENT_CONTENT") =>
               /\ last.actions =
                     <<[type |-> "PRESENT_CONTENT",
                        payload |-> interpolate_variables(
                            wf.nodes[1].blocks[1].payload, last.pre.variables)]>>
               /\ Position(session) = <<wf.nodes[1].id, 1>>

\* reached: the first call on the empty session returned the first block
C7_Witness ==
    /\ CalledGetNextStep
    /\ last.pre = EmptySession
    /\ Len(last.actions) = 1
    /\ last.actions[1].type = "PRESENT_CONTENT"
    /\ Position(session) = <<"n1", 1>>

\* the place of node_id in the declaration order
DeclaredAt(node_id) == CHOOSE i \in 1..Len(wf.nodes) : wf.nodes[i].id = node_id

\* the block index has run past the blocks of an existing node
PastLastBlock(ss) ==
    /\ ss.current_node_id \in DOMAIN nodes
    /\ ss.current_block_index >= Len(nodes[ss.current_node_id].blocks)

\* C8: with the block index at or past the number of blocks of the current
\* node, get_next_step continues from (next declared node, 0) within the same
\* call, and returns exactly [END_WORKFLOW] when the node is the last one.
C8_EndOfNode ==
    (CalledGetNextStep /\ PastLastBlock(last.pre)) =>
        IF DeclaredAt(last.pre.current_node_id) = Len(wf.nodes)
        THEN /\ last.actions = <<END_WORKFLOW>>
             /\ last.exc = ""
             /\ session = last.pre
        ELSE SameOutcome(get_next_step(
                 [last.pre EXCEPT
                     !.current_node_id =
                         wf.nodes[DeclaredAt(last.pre.current_node_id) + 1].id,
                     !.current_block_index = 0], last.uuid))

\* reached: a call at the end of the first node that processed block 0 of the
\* second node
C8_Witness ==
    /\ CalledGetNextStep
    /\ PastLastBlock(last.pre)
    /\ last.pre.current_node_id = "n1"
    /\ last.at = <<"n2", 0>>
    /\ Position(session) = <<"n2", 1>>

\* the CONDITION blocks of the workflow
ConditionBlocks ==
    UNION {{wf.nodes[n].blocks[b] :
                b \in {c \in 1..Len(wf.nodes[n].blocks) :
                          wf.nodes[n].blocks[c].type = "CONDITION"}} :
            n \in 1..Len(wf.nodes)}

TrueRules(block, variables) ==
    {i \in 1..Len(block.rules) :
        _evaluate_structured_condition(block.rules[i], variables)}

FirstTrueRule(block, variables) ==
    CHOOSE i \in TrueRules(block, variables) :
        \A j \in TrueRules(block, variables) : i <= j

\* the last call processed the actions of a CONDITION block
ProcessedCondition ==
    /\ CalledGetNextStep
    /\ last.at # NoPosition
    /\ nodes[last.at[1]].blocks[last.at[2] + 1].type = "CONDITION"

ProcessedBlock == nodes[last.at[1]].blocks[last.at[2] + 1]

\* C9: for a CONDITION block the action list used is the 'then' list of the
\* first rule, in declared order, whose condition is true; later rules do not
\* contribute even when they are true as well.
C9_FirstTrueRuleWins ==
    /\ \A block \in ConditionBlocks :
          TrueRules(block, session.variables) # {} =>
              ConditionActions(block, session.variables) =
                  Get(block.rules[FirstTrueRule(block, session.variables)],
                      "then", <<>>)
    /\ (ProcessedCondition /\ TrueRules(ProcessedBlock, last.pre.variables) # {}) =>
          last.resolved =
              Get(ProcessedBlock.rules[FirstTrueRule(ProcessedBlock,
                                                     last.pre.variables)],
                  "then", <<>>)

\* reached: a CONDITION block processed while two of its rules were true, the
\* 'then' list of the first being the one used
C9_Witness ==
    /\ ProcessedCondition
    /\ Cardinality(TrueRules(ProcessedBlock, last.pre.variables)) >= 2
    /\ last.resolved = ProcessedBlock.rules[1].then
    /\ last.resolved # ProcessedBlock.rules[2].then
    /\ last.actions = last.resolved

\* C10: for a CONDITION block in which no rule is true the action list used is
\* the 'else' list of the last rule, empty when the last rule has none; the
\* 'else' list of any other rule is never used.
C10_ElseOfLastRule ==
    /\ \A block \in ConditionBlocks :
          TrueRules(block, session.variables) = {} =>
              ConditionActions(block, session.variables) =
                  IF "else" \in DOMAIN block.rules[Len(block.rules)]
                  THEN block.rules[Len(block.rules)]["else"]
                  ELSE <<>>
    /\ (ProcessedCondition /\ TrueRules(ProcessedBlock, last.pre.variables) = {}) =>
          /\ "else" \in DOMAIN ProcessedBlock.rules[Len(ProcessedBlock.rules)]
          /\ last.resolved = ProcessedBlock.rules[Len(ProcessedBlock.rules)]["else"]

\* reached: a CONDITION block processed while none of its rules was true, its
\* first rule carrying an 'else' list that was not the one used
C10_Witness ==
    /\ ProcessedCondition
    /\ TrueRules(ProcessedBlock, last.pre.variables) = {}
    /\ "else" \in DOMAIN ProcessedBlock.rules[1]
    /\ Len(ProcessedBlock.rules) = 2
    /\ last.resolved = ProcessedBlock.rules[2]["else"]
    /\ last.resolved # ProcessedBlock.rules[1]["else"]
    /\ last.actions = last.resolved

(***************************************************************************)
(* Properties of the resolved action list                                  *)
(***************************************************************************)
\* the last call was made on a CONDITION block with rules that resolved to an
\* empty action list
OnEmptyCondition ==
    /\ CalledGetNextStep
    /\ OnBlock(last.pre)
    /\ BlockAt(last.pre).type = "CONDITION"
    /\ BlockAt(last.pre).rules # <<>>
    /\ ConditionActions(BlockAt(last.pre), last.pre.variables) = <<>>

\* C11: when a CONDITION block resolves to an empty action list, get_next_step
\* adds one to the block index and continues with the following block in the
\* same call: the caller receives what the following position gives, and
\* nothing produced by the CONDITION block.
C11_EmptyConditionSkipped ==
    OnEmptyCondition =>
        /\ SameOutcome(get_next_step(
               [last.pre EXCEPT !.current_block_index = @ + 1], last.uuid))
        /\ last.at # Position(last.pre)

\* reached: a CONDITION block resolved to an empty list and the call returned
\* the action of the block after it
C11_Witness ==
    /\ OnEmptyCondition
    /\ last.at = <<last.pre.current_node_id, last.pre.current_block_index + 1>>
    /\ Len(last.actions) = 1
    /\ Position(session) =
           <<last.pre.current_node_id, last.pre.current_block_index + 2>>

\* the kinds processed inside the engine
InternalKinds == {"SET_VARIABLE", "UPDATE_VARIABLE", "ANALYZE_RESPONSE"}

HasGoto(actions) == \E i \in 1..Len(actions) : IsGoto(actions[i])

\* the last call resolved the action list of a block and processed it
ProcessedList == CalledGetNextStep /\ last.at # NoPosition

\* the variables, the pending action, the returned list and the exception of
\* the last call are those of the processing outcome r
ProcessedAs(r) ==
    /\ session.variables = r.ss.variables
    /\ session.pending_action = r.ss.pending_action
    /\ last.actions = r.client_actions
    /\ last.exc = r.exc

\* C12: when the resolved action list holds a GOTO_NODE action, the session is
\* at (target, 0) on return and the other actions of the list were processed
\* as they are without it; when it holds none and the block is not
\* AWAIT_USER_INPUT, the node is unchanged and the index is that of the block
\* plus one.
C12_GotoWinsAfterProcessing ==
    ProcessedList =>
        IF HasGoto(last.resolved)
        THEN /\ Position(session) =
                    <<SelectSeq(last.resolved, IsGoto)[1].target, 0>>
             /\ ProcessedAs(_process_actions_internally(
                    InterpolateActions(SelectSeq(last.resolved, IsNotGoto),
                                       last.pre.variables),
                    last.pre, last.uuid))
        ELSE ProcessedBlock.type # "AWAIT_USER_INPUT" =>
                 Position(session) = <<last.at[1], last.at[2] + 1>>

\* reached: a list with a GOTO_NODE between an assignment and two client
\* actions was processed: the variable is set, the two actions are returned
\* and the session is on the first block of the target
C12_Witness ==
    /\ ProcessedList
    /\ HasGoto(last.resolved)
    /\ Len(last.resolved) = 4
    /\ last.at[1] = "n1"
    /\ Position(session) = <<"n2", 0>>
    /\ Len(last.actions) = 2
    /\ <<"t">> \in DOMAIN session.variables
    /\ <<"t">> \notin DOMAIN last.pre.variables

\* an action of a kind returned to the caller
IsClientFacing(a) == Get(a, "type", "None") \notin InternalKinds \cup {"GOTO_NODE"}

\* a returned action without the id attached to an AWAIT_USER_INPUT action
WithoutId(a) ==
    IF a.type = "AWAIT_USER_INPUT" THEN [k \in DOMAIN a \ {"id"} |-> a[k]] ELSE a

\* C13: the list returned by get_next_step is, in order, the actions of the
\* resolved list that are PRESENT_CONTENT, AWAIT_USER_INPUT, END_WORKFLOW or of
\* an unknown kind, each as interpolated (an unknown kind gets no other
\* treatment); no SET_VARIABLE, UPDATE_VARIABLE, ANALYZE_RESPONSE or GOTO_NODE
\* action is returned.
C13_OnlyClientFacingReturned ==
    (CalledGetNextStep /\ last.exc = "") =>
        /\ \A i \in 1..Len(last.actions) : IsClientFacing(last.actions[i])
        /\ last.at # NoPosition =>
              [i \in 1..Len(last.actions) |-> WithoutId(last.actions[i])] =
                  InterpolateActions(SelectSeq(last.resolved, IsClientFacing),
                                     last.pre.variables)

\* reached: of a list of four actions, the assignment and the navigation were
\* kept inside and the content and the action of unknown kind were returned in
\* their order
C13_Witness ==
    /\ ProcessedList /\ last.exc = ""
    /\ Len(last.resolved) = 4
    /\ last.resolved[1].type = "SET_VARIABLE"
    /\ last.resolved[2].type = "GOTO_NODE"
    /\ Len(last.actions) = 2
    /\ last.actions[1].type = "PRESENT_CONTENT"
    /\ last.actions[2].type = "NOTE"
    /\ last.actions[2] # last.resolved[4]

(***************************************************************************)
(* Properties of the internal actions.  They are stated on the calls whose  *)
(* resolved list holds one internal action, so that the variables it reads  *)
(* are those of the session before the call.                                *)
(***************************************************************************)
SoleInternalActions ==
    {j \in 1..Len(last.resolved) :
        /\ last.resolved[j].type \in InternalKinds
        /\ \A k \in 1..Len(last.resolved) :
               k # j => last.resolved[k].type \notin InternalKinds}

\* a field of an action as get_next_step hands it to the internal processing
FieldText(a, key) == interpolate_variables(a[key], last.pre.variables)

\* the variable named by the 'target' field of an action
TargetOf(a) == VarKey(FieldText(a, "target"))

IsSetFromSource(a) ==
    a.type = "SET_VARIABLE" /\ {"target", "source"} \subseteq DOMAIN a

\* the call read in the source of a SET_VARIABLE action
ParsedSource(a) ==
    parse_function_call(
        interpolate_variables(FieldText(a, "source"), last.pre.variables).v)

\* the source of a SET_VARIABLE action reads as a call of a registered tool
CallsTool(a) ==
    /\ tool_registry.present
    /\ a.source.t = "str"
    /\ ParsedSource(a).found
    /\ has_tool(tool_registry, ParsedSource(a).name)

IsSetFromAction(a) ==
    /\ a.type = "SET_VARIABLE"
    /\ {"target", "action"} \subseteq DOMAIN a
    /\ "source" \notin DOMAIN a

NamesRegisteredTool(a) ==
    tool_registry.present /\ has_tool(tool_registry, a.action.v)

\* the call of the tool named by a with its arguments interpolated leaf by leaf
ToolOutcome(a) ==
    ToolRegistry_call(tool_registry, a.action.v, <<>>,
        _interpolate_args_deep(Get(a, "actionArgs", <<>>), last.pre.variables))

\* the position after the processing of the resolved list
PositionAdvanced ==
    Position(session) =
        IF HasGoto(last.resolved)
        THEN <<SelectSeq(last.resolved, IsGoto)[1].target, 0>>
        ELSE <<last.at[1], last.at[2] + 1>>

\* C15: a SET_VARIABLE naming a registered tool with an argument tree calls
\* the tool with the arguments interpolated leaf by leaf, each keeping its
\* type; the target is the result when the tool returns and null when it
\* raises; get_next_step returns in both cases and the position advances.
C15_ActionFormResultOrNull ==
    ProcessedList =>
        \A j \in SoleInternalActions :
            (IsSetFromAction(last.resolved[j])
                /\ NamesRegisteredTool(last.resolved[j])) =>
                /\ last.exc = ""
                /\ TargetOf(last.resolved[j]) \in DOMAIN session.variables
                /\ session.variables[TargetOf(last.resolved[j])] =
                       IF ToolOutcome(last.resolved[j]).exc = ""
                       THEN ToolOutcome(last.resolved[j]).v
                       ELSE NoneV
                /\ PositionAdvanced

\* reached: the tool called with a list for its user id raised, the target is
\* null and the call returned with the position advanced
C15_Witness ==
    /\ ProcessedList /\ last.exc = ""
    /\ \E j \in SoleInternalActions :
          /\ IsSetFromAction(last.resolved[j])
          /\ NamesRegisteredTool(last.resolved[j])
          /\ ToolOutcome(last.resolved[j]).exc = "TypeError"
    /\ last.pre.variables[<<"L">>].t = "list"
    /\ session.variables[<<"r">>] = NoneV
    /\ Position(session) = <<last.at[1], last.at[2] + 1>>

Append_ == StrV(<<"a", "p", "p", "e", "n", "d">>)

HasUpdateFields(a) ==
    a.type = "UPDATE_VARIABLE" /\ {"target", "source", "operation"} \subseteq DOMAIN a

IsAppend(a) == HasUpdateFields(a) /\ FieldText(a, "operation") = Append_

IsOtherUpdate(a) == HasUpdateFields(a) /\ FieldText(a, "operation") # Append_

\* the sequence the claim expects after the append of source to the value old
\* of the target (bound tells whether the target was bound)
ExpectedAppend(bound, old, source) ==
    IF ~bound THEN <<source>>
    ELSE IF old.t = "list" THEN Append(old.v, source)
    ELSE <<old, source>>

\* C16: UPDATE_VARIABLE with operation "append" leaves the target a sequence
\* ending with the interpolated source: [source] when the target was absent,
\* old + [source] when it was a sequence, [old, source] when it held a value
\* of another type; it never raises.
C16_AppendAlwaysSequence ==
    ProcessedList =>
        \A j \in SoleInternalActions :
            IsAppend(last.resolved[j]) =>
                /\ last.exc = ""
                /\ TargetOf(last.resolved[j]) \in DOMAIN session.variables
                /\ session.variables[TargetOf(last.resolved[j])] =
                       ListV(ExpectedAppend(
                           TargetOf(last.resolved[j]) \in DOMAIN last.pre.variables,
                           Get(last.pre.variables, TargetOf(last.resolved[j]), NoneV),
                           FieldText(last.resolved[j], "source")))

\* C17: UPDATE_VARIABLE with an operation other than "append" leaves every
\* variable as it was and binds nothing; only the position advances.
C17_OtherOperationNoOp ==
    ProcessedList =>
        \A j \in SoleInternalActions :
            IsOtherUpdate(last.resolved[j]) =>
                /\ last.exc = ""
                /\ session.variables = last.pre.variables
                /\ session.pending_action = last.pre.pending_action
                /\ PositionAdvanced

\* reached: an UPDATE_VARIABLE with the operation "set" processed while other
\* variables were bound, its target still unbound afterwards
C17_Witness ==
    /\ ProcessedList /\ last.exc = ""
    /\ \E j \in SoleInternalActions :
          /\ IsOtherUpdate(last.resolved[j])
          /\ TargetOf(last.resolved[j]) \notin DOMAIN session.variables
    /\ Cardinality(DOMAIN session.variables) >= 2
    /\ Position(session) = <<last.at[1], last.at[2] + 1>>

IsAnalyze(a) ==
    a.type = "ANALYZE_RESPONSE" /\ {"input", "output_bool"} \subseteq DOMAIN a

\* action.get('criteria') after the interpolation of the fields
Criteria(a) == IF "criteria" \in DOMAIN a THEN FieldText(a, "criteria") ELSE NoneV

\* a criteria name is given and names a tool of the registry
CriteriaRegistered(a) ==
    /\ tool_registry.present
    /\ Criteria(a).t = "str" /\ Criteria(a).v # <<>>
    /\ has_tool(tool_registry, Criteria(a).v)

\* the call of the criteria tool with the input value
CriteriaOutcome(a) ==
    ToolRegistry_call(tool_registry, Criteria(a).v, <<FieldText(a, "input")>>, <<>>)

\* the variable named by the 'output_bool' field
OutputOf(a) == VarKey(FieldText(a, "output_bool"))

\* C18: ANALYZE_RESPONSE assigns to the output_bool variable what the criteria
\* tool returns for the input value when a criteria name is given and
\* registered, and false in every other case: no criteria, no registry, a name
\* that is not registered.
C18_AnalyzeAssigns ==
    ProcessedList =>
        \A j \in SoleInternalActions :
            IsAnalyze(last.resolved[j]) =>
                IF CriteriaRegistered(last.resolved[j])
                THEN CriteriaOutcome(last.resolved[j]).exc = "" =>
                        /\ last.exc = ""
                        /\ OutputOf(last.resolved[j]) \in DOMAIN session.variables
                        /\ session.variables[OutputOf(last.resolved[j])] =
                               CriteriaOutcome(last.resolved[j]).v
                ELSE /\ last.exc = ""
                     /\ OutputOf(last.resolved[j]) \in DOMAIN session.variables
                     /\ session.variables[OutputOf(last.resolved[j])] = BoolV(FALSE)

\* reached: the registered criteria tool called with the answer "1" returned
\* true and the output variable holds true
C18_Witness ==
    /\ ProcessedList /\ last.exc = ""
    /\ \E j \in SoleInternalActions :
          /\ IsAnalyze(last.resolved[j])
          /\ CriteriaRegistered(last.resolved[j])
          /\ FieldText(last.resolved[j], "input") = StrV(<<"1">>)
          /\ CriteriaOutcome(last.resolved[j]) = Ok(BoolV(TRUE))
    /\ session.variables[<<"f">>] = BoolV(TRUE)

\* the call read in the source of a SET_VARIABLE action, made
SourceOutcome(a) ==
    ToolRegistry_call(tool_registry, ParsedSource(a).name, ParsedSource(a).args,
                      <<>>)

\* the returned list holds the client-facing actions of the resolved list
ReturnedClientFacing ==
    [i \in 1..Len(last.actions) |-> WithoutId(last.actions[i])] =
        InterpolateActions(SelectSeq(last.resolved, IsClientFacing),
                           last.pre.variables)

\* the call returned, having assigned value to the variable var and processed
\* the rest of the list
CaughtWith(var, value) ==
    /\ last.exc = ""
    /\ var \in DOMAIN session.variables
    /\ session.variables[var] = value
    /\ ReturnedClientFacing

\* C19: at each of the three tool call sites (SET_VARIABLE with a source,
\* SET_VARIABLE with an action, ANALYZE_RESPONSE) a tool that raises is caught:
\* the target is null, or false for ANALYZE_RESPONSE, the rest of the list is
\* processed and get_next_step returns.
C19_ToolFailureCaught ==
    ProcessedList =>
        \A j \in SoleInternalActions :
            /\ (/\ IsSetFromSource(last.resolved[j])
                /\ CallsTool(last.resolved[j])
                /\ SourceOutcome(last.resolved[j]).exc # "") =>
                   CaughtWith(TargetOf(last.resolved[j]), NoneV)
            /\ (/\ IsSetFromAction(last.resolved[j])
                /\ NamesRegisteredTool(last.resolved[j])
                /\ ToolOutcome(last.resolved[j]).exc # "") =>
                   CaughtWith(TargetOf(last.resolved[j]), NoneV)
            /\ (/\ IsAnalyze(last.resolved[j])
                /\ CriteriaRegistered(last.resolved[j])
                /\ CriteriaOutcome(last.resolved[j]).exc # "") =>
                   CaughtWith(OutputOf(last.resolved[j]), BoolV(FALSE))

\* C20: get_next_step returns a list of actions and never raises, for every
\* workflow document and every session reachable from the empty session.
C20_NeverRaises == CalledGetNextStep => last.exc = ""

(***************************************************************************)
(* Sessions supplied by the caller                                         *)
(*   the session is a dictionary the caller owns and passes to every call  *)
(*   (api_server.py hands over the request's session_state as it is), so a *)
(*   call may meet a session that names a node and carries no index        *)
(***************************************************************************)
\* a session with current_node_id set and no current_block_index key
NodeOnly(node_id) == [EmptySession EXCEPT !.current_node_id = node_id]

\* the same session suspended on a question with the given id
NodeOnlyPending(node_id, id) ==
    [NodeOnly(node_id) EXCEPT
        !.pending_action = [type |-> "AWAIT_USER_INPUT",
                            target |-> StrV(<<"u">>), id |-> id]]

SuppliedSessions ==
    {EmptySession, NodeOnly("n1"), NodeOnly("n2"), NodeOnlyPending("n1", 1)}

InitSupplied ==
    /\ wf \in Workflows
    /\ tool_registry \in ToolRegistries
    /\ action_registry = ActionRegistry_init
    /\ session \in SuppliedSessions
    /\ next_uuid = IF session.pending_action = NoPending THEN 1 ELSE 2
    /\ emitted_ids = IF session.pending_action = NoPending THEN <<>> ELSE <<1>>
    /\ pending_at = IF session.pending_action = NoPending
                     THEN NoPosition ELSE Position(session)
    /\ last = [op |-> "init", pre |-> session, action_id |-> 0,
               response |-> NoneV, actions |-> <<>>, exc |-> "",
               at |-> NoPosition, resolved |-> <<>>, uuid |-> next_uuid,
               pending_at |-> pending_at, depth |-> 0,
               effective |-> {}, replaced |-> {}]

SpecSupplied == InitSupplied /\ [][Next]_vars

\* the session names an existing node and has no index
WithoutIndex(ss) ==
    /\ ss.current_node_id \in DOMAIN nodes
    /\ ss.current_block_index = NoIndex

\* C21: a session with current_node_id set and no current_block_index is
\* treated as being at block 0: get_next_step processes block 0 and leaves the
\* index at 1, or at 0 of the GOTO target, and process_user_response with the
\* pending id leaves the index at 1; neither raises.
C21_MissingIndexIsZero ==
    /\ (/\ CalledGetNextStep
        /\ WithoutIndex(last.pre)
        /\ nodes[last.pre.current_node_id].blocks # <<>>) =>
           /\ last.exc = ""
           /\ \/ Position(session) = <<last.pre.current_node_id, 1>>
              \/ /\ session.current_node_id # last.pre.current_node_id
                 /\ session.current_block_index = 0
    /\ (/\ CalledProcessUserResponse
        /\ WithoutIndex(last.pre)
        /\ Matched) =>
           /\ last.exc = ""
           /\ session.current_block_index = 1

(***************************************************************************)
(* The chain of recursive self-calls                                       *)
(***************************************************************************)
\* the places before the node declared at i: the blocks of the nodes declared
\* earlier and, for each of them, the place past its last block
RECURSIVE PlacesBefore(_)
PlacesBefore(i) ==
    IF i <= 1 THEN 0
    ELSE PlacesBefore(i - 1) + Len(nodes[node_order[i - 1]].blocks) + 1

\* the total number of blocks of the workflow
TotalBlocks == PlacesBefore(Len(node_order) + 1) - Len(node_order)

\* the place of a session in declaration order: -1 before the start, and an
\* index past the end of a node counts as the end of the node
Place(ss) ==
    IF ss.current_node_id = NoNode THEN -1
    ELSE PlacesBefore(NodeIndex(ss.current_node_id))
         + IF BlockIndex(ss) >= Len(nodes[ss.current_node_id].blocks)
           THEN Len(nodes[ss.current_node_id].blocks)
           ELSE BlockIndex(ss)

\* the place of the block that was processed
PlaceAt(at) == Place([EmptySession EXCEPT !.current_node_id = at[1],
                                          !.current_block_index = at[2]])

\* get_next_step was called on a session that is unstarted or on a node of the
\* workflow
CalledOnWorkflow ==
    /\ CalledGetNextStep
    /\ \/ last.pre.current_node_id = NoNode
       \/ last.pre.current_node_id \in DOMAIN nodes

\* C22: every get_next_step call ends after finitely many recursive
\* self-calls: each self-call moves the session one place forward in
\* declaration order (the start, the next block after an empty CONDITION, the
\* next node after the end of a node), so the chain is as long as the distance
\* from where the call began to the block it processed or to the end of the
\* last node, and never longer than nodes + blocks + 1.
C22_ChainBounded ==
    /\ CalledGetNextStep => last.depth <= Len(wf.nodes) + TotalBlocks + 1
    /\ (CalledGetNextStep /\ ~CalledOnWorkflow) => last.depth = 0
    /\ (CalledOnWorkflow /\ last.at # NoPosition) =>
           last.depth = PlaceAt(last.at) - Place(last.pre)
    /\ (/\ CalledOnWorkflow
        /\ last.at = NoPosition
        /\ last.actions = <<END_WORKFLOW>>) =>
           /\ Place(session) = PlacesBefore(Len(node_order) + 1) - 1
           /\ last.depth = Place(session) - Place(last.pre)

\* reached: one call that started the workflow, passed two empty CONDITION
\* blocks, an empty node and a third empty CONDITION before it returned a block
C22_Witness ==
    /\ CalledGetNextStep
    /\ last.pre.current_node_id = NoNode
    /\ last.depth = 6
    /\ last.at = <<"n3", 1>>
    /\ Len(last.actions) = 1

(***************************************************************************)
(* GOTO_NODE cycles                                                        *)
(***************************************************************************)
\* the workflow is a cycle of GOTO_NODE blocks with no client-facing block:
\* every block is an internal action or a GOTO_NODE, and every node ends with
\* a GOTO_NODE to a node of the workflow
GotoCycle ==
    /\ wf.nodes # <<>>
    /\ \A i \in 1..Len(wf.nodes) :
          /\ wf.nodes[i].blocks # <<>>
          /\ \A j \in 1..Len(wf.nodes[i].blocks) :
                wf.nodes[i].blocks[j].type \in InternalKinds \cup {"GOTO_NODE"}
          /\ IsGoto(wf.nodes[i].blocks[Len(wf.nodes[i].blocks)])
          /\ wf.nodes[i].blocks[Len(wf.nodes[i].blocks)].target \in DOMAIN nodes

AdvancedPastEnd ==
    /\ CalledOnWorkflow
    /\ last.pre.current_node_id # NoNode
    /\ BlockIndex(last.pre) >= Len(nodes[last.pre.current_node_id].blocks)
    /\ HasNextNode(last.pre.current_node_id)
    /\ last.depth >= 1

\* the last call processed a list that holds a GOTO_NODE
Navigated == CalledGetNextStep /\ HasGoto(last.resolved)

\* C24: over any sequence of get_next_step and process_user_response calls, a
\* call leaves the block index at least where it found it unless it navigated:
\* the index becomes smaller, or the node another one, only through a
\* GOTO_NODE (index 0 of the target) or through the advance from the end of a
\* node to the next declared node (which starts at index 0), or, for the node,
\* through the start of an unstarted session.
C24_IndexNeverDecreases ==
    (last.op # "init" /\ last.pre.current_block_index # NoIndex) =>
        /\ session.current_block_index < last.pre.current_block_index =>
              \/ Navigated /\ session.current_block_index = 0
              \/ AdvancedPastEnd
        /\ session.current_node_id # last.pre.current_node_id =>
              \/ Navigated /\ session.current_block_index = 0
              \/ /\ AdvancedPastEnd
                 /\ session.current_node_id \in DOMAIN nodes
                 /\ NodeIndex(session.current_node_id)
                        > NodeIndex(last.pre.current_node_id)
        /\ CalledProcessUserResponse =>
              session.current_block_index \in
                  {last.pre.current_block_index,
                   last.pre.current_block_index + 1}

\* reached: a call at the end of the first node that went on to the second
\* node, processed its first block and left a smaller index
C24_Witness ==
    /\ CalledGetNextStep
    /\ AdvancedPastEnd
    /\ ~Navigated
    /\ last.pre.current_node_id = "n1"
    /\ Position(session) = <<"n2", 1>>
    /\ last.pre.current_block_index > 1

(***************************************************************************)
(* The workflow and the registries under the calls                         *)
(***************************************************************************)
\* C25: no get_next_step or process_user_response call changes the parsed
\* workflow or the contents of the tool and action registries, also when a
\* value taken from a block field (a list-valued SET_VARIABLE source) is
\* appended to later as a session variable.
C25_WorkflowUnchanged ==
    [][/\ wf' = wf
       /\ tool_registry' = tool_registry
       /\ action_registry' = action_registry]_vars

(***************************************************************************)
(* The registries on their own                                             *)
(*   A caller builds a tool registry and an action registry, registers     *)
(*   callables under names and calls them.  last records the call: its     *)
(*   name (op), its arguments, the two registries and the context before   *)
(*   it (tool_registry, action_registry, pre), the value it returned (v)   *)
(*   and the exception it raised (exc); session is the context handed to   *)
(*   the actions.                                                          *)
(***************************************************************************)
ToolNames == {<<"h">>, <<"k">>}

ToolCallables == {"has_active_loans", "get_loan_count", "bool"}

\* the positional arguments of a tool call
ToolArguments == {<<StrV(<<"1">>)>>, <<ListV(<<>>)>>}

ActionNames == {"set_variable", "v"}

ActionCallables == {"update_variable", "bool"}

\* the keyword arguments of an execute call
ActionArguments == {[target |-> StrV(<<"u">>), value |-> StrV(<<"a">>)], <<>>}

InitRegistry ==
    /\ wf = WfEmpty
    /\ tool_registry = ToolRegistry_init
    /\ action_registry = ActionRegistry_init
    /\ session = EmptySession
    /\ next_uuid = 1
    /\ emitted_ids = <<>>
    /\ pending_at = NoPosition
    /\ last = [op |-> "init", name |-> "", func |-> "", arguments |-> <<>>,
               tool_registry |-> tool_registry,
               action_registry |-> action_registry, pre |-> session,
               v |-> NoneV, exc |-> ""]

\* what a call leaves in last
Called(op, name, func, arguments, v, exc) ==
    last' = [op |-> op, name |-> name, func |-> func, arguments |-> arguments,
             tool_registry |-> tool_registry,
             action_registry |-> action_registry, pre |-> session,
             v |-> v, exc |-> exc]

RegisterToolReturns(name, func, r) ==
    /\ tool_registry' = r.registry
    /\ Called("ToolRegistry.register", name, func, <<>>, NoneV, r.exc)
    /\ UNCHANGED <<wf, action_registry, session, next_uuid, emitted_ids,
                   pending_at>>

\* the caller calls tool_registry.register(name, func)
RegisterTool ==
    \E name \in ToolNames, func \in ToolCallables :
        RegisterToolReturns(name, func,
            ToolRegistry_register(tool_registry, name, func, ""))

RegisterActionReturns(name, action, r) ==
    /\ action_registry' = r.registry
    /\ Called("ActionRegistry.register", name, action, <<>>, NoneV, r.exc)
    /\ UNCHANGED <<wf, tool_registry, session, next_uuid, emitted_ids,
                   pending_at>>

\* the caller calls action_registry.register(name, action)
RegisterAction ==
    \E name \in ActionNames, action \in ActionCallables :
        RegisterActionReturns(name, action,
            ActionRegistry_register(action_registry, name, action, ""))

CallToolReturns(name, args, r) ==
    /\ Called("ToolRegistry.call", name, "", args, r.v, r.exc)
    /\ UNCHANGED <<wf, tool_registry, action_registry, session, next_uuid,
                   emitted_ids, pending_at>>

\* the caller calls tool_registry.call(name, *args)
CallTool ==
    \E name \in ToolNames, args \in ToolArguments :
        CallToolReturns(name, args,
            ToolRegistry_call(tool_registry, name, args, <<>>))

ExecuteActionReturns(name, kwargs, r) ==
    /\ WithinBounds(r.context)
    /\ session' = r.context
    /\ Called("ActionRegistry.execute", name, "", kwargs, r.v, r.exc)
    /\ UNCHANGED <<wf, tool_registry, action_registry, next_uuid, emitted_ids,
                   pending_at>>

\* the caller calls action_registry.execute(name, session, **kwargs)
ExecuteAction ==
    \E name \in ActionNames, kwargs \in ActionArguments :
        ExecuteActionReturns(name, kwargs,
            ActionRegistry_execute(action_registry, name, session, kwargs))

NextRegistry == RegisterTool \/ RegisterAction \/ CallTool \/ ExecuteAction

SpecRegistry == InitRegistry /\ [][NextRegistry]_vars

\* the names of the definitions a registry lists, in order
ListedNames(definitions) ==
    [i \in 1..Len(definitions) |-> definitions[i].name]

\* the list holds each of the names exactly once
ListsEachOnce(names, definitions) ==
    /\ {definitions[i].name : i \in 1..Len(definitions)} = names
    /\ NoDuplicates(ListedNames(definitions))

\* the definition stored under name, NoneV when there is none
\* (get_tool_definition, get_action_definition)
DefinitionOf(definitions, name) ==
    IF \E i \in 1..Len(definitions) : definitions[i].name = name
    THEN definitions[CHOOSE i \in 1..Len(definitions) :
                         definitions[i].name = name]
    ELSE NoneV

\* C26: after any sequence of register calls a registry (tool or action)
\* lists each registered name exactly once; a register call makes call() use
\* the callable it was given and stores the definition built from it, also
\* when the name was registered before, and leaves the entries of the other
\* names as they were.
C26_RegisterReplaces ==
    /\ ListsEachOnce(DOMAIN tool_registry.tools, list_tools(tool_registry))
    /\ ListsEachOnce(DOMAIN action_registry.actions,
                     list_actions(action_registry))
    /\ last.op = "ToolRegistry.register" =>
          /\ tool_registry.tools[last.name] = last.func
          /\ DefinitionOf(tool_registry.definitions, last.name) =
                 ToolDefinition(last.name, last.func, "")
          /\ \A k \in DOMAIN last.tool_registry.tools \ {last.name} :
                /\ tool_registry.tools[k] = last.tool_registry.tools[k]
                /\ DefinitionOf(tool_registry.definitions, k) =
                       DefinitionOf(last.tool_registry.definitions, k)
    /\ last.op = "ActionRegistry.register" =>
          /\ action_registry.actions[last.name] = last.func
          /\ DefinitionOf(action_registry.definitions, last.name) =
                 ActionDefinition(last.name, last.func, "")
          /\ \A k \in DOMAIN last.action_registry.actions \ {last.name} :
                /\ action_registry.actions[k] = last.action_registry.actions[k]
                /\ DefinitionOf(action_registry.definitions, k) =
                       DefinitionOf(last.action_registry.definitions, k)

(***************************************************************************)
(* call and execute                                                        *)
(***************************************************************************)

\* the last operation called the tool registry with a registered name
CalledRegisteredTool ==
    /\ last.op = "ToolRegistry.call"
    /\ has_tool(last.tool_registry, last.name)

\* the last operation executed a registered action
ExecutedRegisteredAction ==
    /\ last.op = "ActionRegistry.execute"
    /\ last.name \in DOMAIN last.action_registry.actions

\* nothing the registries or the context hold has changed
NothingChanged ==
    /\ tool_registry = last.tool_registry
    /\ action_registry = last.action_registry
    /\ session = last.pre

\* C27: call(name, ...) on a registered name returns what the registered
\* callable returns and raises what it raises (execute likewise, the context
\* being what the callable made of it); on a name that is not registered it
\* raises ValueError, no callable has acted on the context and the registries
\* are as they were.
C27_CallIsTheCallable ==
    /\ last.op = "ToolRegistry.call" =>
          IF has_tool(last.tool_registry, last.name)
          THEN /\ [v |-> last.v, exc |-> last.exc] =
                      ToolApply(last.tool_registry.tools[last.name],
                                last.arguments, <<>>)
               /\ NothingChanged
          ELSE last.exc = "ValueError" /\ NothingChanged
    /\ last.op = "ActionRegistry.execute" =>
          IF last.name \in DOMAIN last.action_registry.actions
          THEN /\ [context |-> session, v |-> last.v, exc |-> last.exc] =
                      ActionApply(last.action_registry.actions[last.name],
                                  last.pre, last.arguments)
               /\ tool_registry = last.tool_registry
               /\ action_registry = last.action_registry
          ELSE last.exc = "ValueError" /\ NothingChanged

\* a registered tool was called and returned a value
C27_Witness ==
    /\ CalledRegisteredTool
    /\ last.tool_registry.tools[last.name] = "get_loan_count"
    /\ last.exc = ""
    /\ last.v # NoneV

(***************************************************************************)
(* The built-in verbs and the Orchestrator                                 *)
(***************************************************************************)

\* the block processed by the last call was one UPDATE_VARIABLE action
ProcessedUpdate ==
    /\ CalledGetNextStep
    /\ Len(last.resolved) = 1
    /\ Get(last.resolved[1], "type", "None") = "UPDATE_VARIABLE"
    /\ {"target", "source", "operation"} \subseteq DOMAIN last.resolved[1]

\* Orchestrator.update_variable on the interpolated copy a of the action
OwnUpdate(a, ss) ==
    update_variable(ss, VarKey(a.target), a.source, a.operation)

\* the call left the variables and the exception of the outcome r
LeftAs(r) ==
    /\ session.variables = r.ss.variables
    /\ last.exc = r.exc

\* C28: a freshly constructed action registry holds exactly the six built-in
\* verbs, in the order present_content, await_user_input, set_variable,
\* update_variable, goto_node, end_workflow, and get_next_step and
\* process_user_response never execute one of them: the registry is never
\* changed, and the variables after an UPDATE_VARIABLE block are those that
\* Orchestrator.update_variable gives, whatever the built-in verb would do.
C28_BuiltinsNotInvoked ==
    /\ ListedNames(list_actions(ActionRegistry_init)) = BuiltinActions
    /\ DOMAIN ActionRegistry_init.actions =
           {BuiltinActions[i] : i \in 1..Len(BuiltinActions)}
    /\ \A n \in DOMAIN ActionRegistry_init.actions :
           ActionRegistry_init.actions[n] = n
    /\ action_registry = ActionRegistry_init
    /\ ProcessedUpdate =>
           LeftAs(OwnUpdate(InterpolateAction(last.resolved[1],
                                              last.pre.variables),
                            last.pre))

\* an UPDATE_VARIABLE with an operation other than "append" was processed and
\* left unbound the target that the built-in verb would have assigned
C28_Witness ==
    /\ ProcessedUpdate
    /\ last.exc = ""
    /\ last.resolved[1].operation = StrV(<<"s", "e", "t">>)
    /\ VarKey(last.resolved[1].target) \notin DOMAIN session.variables
    /\ VarKey(last.resolved[1].target) \in
           DOMAIN action_update_variable(last.pre, last.resolved[1].target,
                      last.resolved[1].source,
                      last.resolved[1].operation).context.variables

\* the callable the last execute ran
ExecutedCallable == last.action_registry.actions[last.name]

\* the keyword arguments of the last execute, completed with the defaults
ExecutedWith == Bound(ExecutedCallable, last.arguments)

\* the Orchestrator's handling of SET_VARIABLE with a direct source and of
\* UPDATE_VARIABLE, on the fields that get_next_step interpolated
OwnHandling(verb, bound, ss) ==
    IF verb = "set_variable"
    THEN set_variable_from_source(ss, VarKey(bound.target),
             interpolate_variables(bound.value, ss.variables))
    ELSE update_variable(ss, VarKey(bound.target),
             interpolate_variables(bound.value, ss.variables),
             bound.operation)

\* C29: the built-in verbs set_variable and update_variable, executed on a
\* context with a target, a value and an operation, leave the variables that
\* the Orchestrator's handling of SET_VARIABLE (direct source) and of
\* UPDATE_VARIABLE leaves on the same variables with the same fields.
C29_VerbsMirror ==
    (/\ ExecutedRegisteredAction
     /\ ExecutedCallable \in {"set_variable", "update_variable"}
     /\ last.exc # "TypeError")
    => /\ OwnHandling(ExecutedCallable, ExecutedWith, last.pre).exc = last.exc
       /\ OwnHandling(ExecutedCallable, ExecutedWith, last.pre).ss.variables =
              session.variables

(***************************************************************************)
(* interpolate_variables on its own                                        *)
(*   The variable mapping is drawn at the start; each step interpolates    *)
(*   one text against it.  last records the text, the mapping and the      *)
(*   value returned.                                                       *)
(***************************************************************************)
\* the names bound by the mappings and the values they are bound to
BoundNames == {<<"A">>, <<"B">>}

BoundValues ==
    {StrV(<<"x">>), StrV(<<"{", "B", "}">>), StrV(<<"{", "A", "}">>),
     IntV(1), BoolV(TRUE), NoneV}

\* the mappings that bind some of the names
Mappings == UNION {[names -> BoundValues] : names \in SUBSET BoundNames}

\* the arguments passed as text: strings with and without placeholders, and
\* values that are not strings
Texts ==
    {StrV(<<>>), StrV(<<"a">>), StrV(<<"{", "A", "}">>),
     StrV(<<"a", "{", "A", "}", "b">>),
     StrV(<<"{", "A", "}", "{", "B", "}">>),
     StrV(<<"{", "B", "}", "{", "A", "}">>),
     StrV(<<"{", "A", "}", "{", "A", "}">>),
     StrV(<<"{", "{", "A", "}", "}", "{", "x", "}">>),
     StrV(<<"{", "C", "}">>), StrV(<<"{", "}">>), StrV(<<"{", "A">>),
     StrV(<<" ", "{", "A", "}", " ">>), StrV(<<" ", "{", "C", "}">>),
     IntV(1), NoneV, ListV(<<StrV(<<"{", "A", "}">>)>>)}

InitInterpolate ==
    /\ wf = WfEmpty
    /\ tool_registry = ToolRegistry_init
    /\ action_registry = ActionRegistry_init
    /\ \E variables \in Mappings :
           session = [EmptySession EXCEPT !.variables = variables]
    /\ next_uuid = 1
    /\ emitted_ids = <<>>
    /\ pending_at = NoPosition
    /\ last = [op |-> "init", text |-> NoneV, variables |-> session.variables,
               v |-> NoneV]

InterpolateReturns(text, v) ==
    /\ last' = [op |-> "interpolate_variables", text |-> text,
                variables |-> session.variables, v |-> v]
    /\ UNCHANGED <<wf, tool_registry, action_registry, session, next_uuid,
                   emitted_ids, pending_at>>

\* the caller calls interpolate_variables(text, session['variables'])
Interpolate ==
    \E text \in Texts :
        InterpolateReturns(text, interpolate_variables(text, session.variables))

InterpolateWithTypesReturns(value, v) ==
    /\ last' = [op |-> "_interpolate_with_types", text |-> value,
                variables |-> session.variables, v |-> v]
    /\ UNCHANGED <<wf, tool_registry, action_registry, session, next_uuid,
                   emitted_ids, pending_at>>

\* the Orchestrator calls _interpolate_with_types(value, session['variables'])
InterpolateWithTypes ==
    \E value \in Texts :
        InterpolateWithTypesReturns(value,
            _interpolate_with_types(value, session.variables))

NextInterpolate == Interpolate \/ InterpolateWithTypes

SpecInterpolate == InitInterpolate /\ [][NextInterpolate]_vars

\* the placeholder name that starts at position i of s, <<>> when none does
PlaceholderAt(s, i) ==
    IF /\ s[i] = "{"
       /\ NameRun(s, i + 1) >= 1
       /\ i + NameRun(s, i + 1) + 1 <= Len(s)
       /\ s[i + NameRun(s, i + 1) + 1] = "}"
    THEN SubSeq(s, i + 1, i + NameRun(s, i + 1))
    ELSE <<>>

\* s from position i on with each placeholder of s whose name is bound to a
\* value other than None replaced by str(value), the rest copied as it is and
\* the values put in not looked at again
RECURSIVE EachReplacedOnce(_, _, _)
EachReplacedOnce(s, i, variables) ==
    IF i > Len(s) THEN <<>>
    ELSE IF /\ PlaceholderAt(s, i) # <<>>
            /\ PlaceholderAt(s, i) \in DOMAIN variables
            /\ variables[PlaceholderAt(s, i)].t # "none"
    THEN PyStr(variables[PlaceholderAt(s, i)])
             \o EachReplacedOnce(s, i + Len(PlaceholderAt(s, i)) + 2, variables)
    ELSE <<s[i]>> \o EachReplacedOnce(s, i + 1, variables)

\* C30: interpolate_variables returns a text that is not a string as it is;
\* for a string it returns the text with every placeholder {Id} of the input
\* whose Id is bound to a value other than None replaced by str(value) and all
\* the rest as in the input, the values put in not being scanned for
\* placeholders.
C30_EachPlaceholderOnce ==
    last.op = "interpolate_variables" =>
        last.v = IF last.text.t # "str" THEN last.text
                 ELSE StrV(EachReplacedOnce(last.text.v, 1, last.variables))

(***************************************************************************)
(* Type-preserving interpolation                                           *)
(***************************************************************************)
\* s is one placeholder: an opening brace, one or more characters of a name
\* and a closing brace
IsOnePlaceholder(s) ==
    /\ Len(s) >= 3
    /\ s[1] = "{" /\ s[Len(s)] = "}"
    /\ \A i \in 2..(Len(s) - 1) : IsNameChar(s[i])

\* the name between the braces
NameIn(s) == SubSeq(s, 2, Len(s) - 1)

\* the last call was _interpolate_with_types on a string that, trimmed, is one
\* placeholder
TypedOnPlaceholder ==
    /\ last.op = "_interpolate_with_types"
    /\ last.text.t = "str"
    /\ IsOnePlaceholder(Strip(last.text.v))

\* C31: _interpolate_with_types of a string that, trimmed, is exactly one
\* placeholder {Id} with Id bound returns the value bound to Id, with its
\* type; with Id unbound it returns the string as it is; for every other
\* string it returns what interpolate_variables returns.
C31_TypePreserved ==
    last.op = "_interpolate_with_types" =>
        IF TypedOnPlaceholder
        THEN IF NameIn(Strip(last.text.v)) \in DOMAIN last.variables
             THEN last.v = last.variables[NameIn(Strip(last.text.v))]
             ELSE last.v = last.text
        ELSE last.v = interpolate_variables(last.text, last.variables)

\* a placeholder between blanks, bound to an integer, gave the integer
C31_Witness ==
    /\ TypedOnPlaceholder
    /\ last.text.v # Strip(last.text.v)
    /\ last.v = IntV(1)

(***************************************************************************)
(* _evaluate_structured_condition on its own                               *)
(*   The variable mapping is drawn at the start; each step evaluates one   *)
(*   rule against it.  last records the rule, the mapping and the result.  *)
(***************************************************************************)
\* the values of the variable and of the rules
RuleValues ==
    {StrV(<<"F", "O", "O">>), StrV(<<"f", "o", "o">>), StrV(<<"1", "2">>),
     StrV(<<"7">>), StrV(<<"a", "b", "c">>), IntV(12), BoolV(TRUE), NoneV}

\* the operators of the evaluator and one that it does not know
RuleOperators ==
    {"equals", "==", "not_equals", "!=", "is_true", "is_false", "contains",
     "starts_with", "ends_with", "greater_than", "less_than",
     "greater_than_or_equal", "less_than_or_equal", "matches"}

NumericOperators ==
    {"greater_than", "less_than", "greater_than_or_equal",
     "less_than_or_equal"}

\* the rules: the variable "x", or "y" that is never bound, with an operator
\* and a value, or with neither; and rules whose 'variable' is not a string
\* but a list of the document, which are written with the list in the field
\* variable_list
Rules ==
    {[variable |-> n, operator |-> o, value |-> v] :
        n \in {<<"x">>, <<"y">>}, o \in RuleOperators, v \in RuleValues}
    \cup {[variable |-> n] : n \in {<<"x">>, <<"y">>}}
    \cup {[variable_list |-> <<StrV(<<"x">>)>>, operator |-> o] :
              o \in {"is_true", "equals"}}

\* variables.get(variable, ''), which hashes the key: a list raises TypeError,
\* before the try block of the evaluator is entered
LooksUp(rule) == "variable_list" \notin DOMAIN rule

\* the call of the evaluator: its result, or the exception of the lookup
Evaluated(rule, variables) ==
    IF LooksUp(rule)
    THEN [v |-> _evaluate_structured_condition(rule, variables), exc |-> ""]
    ELSE [v |-> FALSE, exc |-> "TypeError"]

InitEvaluate ==
    /\ wf = WfEmpty
    /\ tool_registry = ToolRegistry_init
    /\ action_registry = ActionRegistry_init
    /\ \E variables \in {<<>>} \cup {(<<"x">> :> v) : v \in RuleValues} :
           session = [EmptySession EXCEPT !.variables = variables]
    /\ next_uuid = 1
    /\ emitted_ids = <<>>
    /\ pending_at = NoPosition
    /\ last = [op |-> "init", rule |-> <<>>, variables |-> session.variables,
               v |-> FALSE, exc |-> ""]

EvaluateReturns(rule, r) ==
    /\ last' = [op |-> "_evaluate_structured_condition", rule |-> rule,
                variables |-> session.variables, v |-> r.v, exc |-> r.exc]
    /\ UNCHANGED <<wf, tool_registry, action_registry, session, next_uuid,
                   emitted_ids, pending_at>>

\* get_next_step calls _evaluate_structured_condition(rule, variables)
Evaluate ==
    \E rule \in Rules :
        EvaluateReturns(rule, Evaluated(rule, session.variables))

NextEvaluate == Evaluate

SpecEvaluate == InitEvaluate /\ [][NextEvaluate]_vars

\* the operator of the rule evaluated last, its value, and the value of its
\* variable
OperatorOf(rule) == Get(rule, "operator", "equals")

ValueOf(rule) == Get(rule, "value", StrV(<<>>))

VariableValue == Get(last.variables, last.rule.variable, StrV(<<>>))

\* the last call evaluated a rule and returned
EvaluatedRule ==
    last.op = "_evaluate_structured_condition" /\ last.exc = ""

\* the textual forms of a and b are the same once in lower case
SameTextIgnoringCase(a, b) == Lower(PyStr(a)) = Lower(PyStr(b))

\* C32: 'equals' and '==' are true exactly when the textual forms of the
\* variable's value and of the rule's value are the same without regard to
\* case, 'not_equals' and '!=' exactly when they are not, an absent variable
\* counting as the empty string.
C32_EqualsIgnoresCase ==
    EvaluatedRule =>
        /\ OperatorOf(last.rule) \in {"equals", "=="} =>
               last.v = SameTextIgnoringCase(VariableValue, ValueOf(last.rule))
        /\ OperatorOf(last.rule) \in {"not_equals", "!="} =>
               last.v = ~SameTextIgnoringCase(VariableValue, ValueOf(last.rule))

\* "FOO" equals "foo" was evaluated and is true
C32_Witness ==
    /\ EvaluatedRule
    /\ OperatorOf(last.rule) = "equals"
    /\ VariableValue = StrV(<<"F", "O", "O">>)
    /\ ValueOf(last.rule) = StrV(<<"f", "o", "o">>)
    /\ last.v

\* val is a number or reads as one
Coercible(val) ==
    \/ val.t \in {"int", "bool"}
    \/ val.t = "str" /\ val.v # <<>> /\ \A i \in 1..Len(val.v) : val.v[i] \in DigitChars

\* C33: the evaluator returns a boolean for every rule and every variable
\* mapping; a numeric operator whose variable value or rule value does not
\* convert to a number gives false, and so does an operator it does not know.
C33_EvaluatorTotal ==
    last.op = "_evaluate_structured_condition" =>
        /\ last.exc = ""
        /\ last.v \in BOOLEAN
        /\ (/\ OperatorOf(last.rule) \in NumericOperators
            /\ ~(Coercible(VariableValue) /\ Coercible(ValueOf(last.rule))))
           => last.v = FALSE
        /\ OperatorOf(last.rule) = "matches" => last.v = FALSE

(***************************************************************************)
(* The call-string path in the main flow                                   *)
(***************************************************************************)
\* the sole internal actions of the resolved list that are SET_VARIABLE with
\* a source that is a string
SourceActions ==
    {j \in SoleInternalActions :
        /\ IsSetFromSource(last.resolved[j])
        /\ last.resolved[j].source.t = "str"}

\* the target of a holds value after the call
Holds(a, value) ==
    /\ TargetOf(a) \in DOMAIN session.variables
    /\ session.variables[TargetOf(a)] = value

ReturnedEnd ==
    /\ CalledGetNextStep
    /\ last.exc = ""
    /\ \E i \in 1..Len(last.actions) :
          Get(last.actions[i], "type", "None") = "END_WORKFLOW"

\* the block processed by the last call stands, in its node, after an
\* END_WORKFLOW block
ProcessedAfterEnd ==
    /\ ProcessedList
    /\ \E k \in 1..last.at[2] :
          wf.nodes[NodeIndex(last.at[1])].blocks[k].type = "END_WORKFLOW"

\* C35: once get_next_step has returned a list that holds END_WORKFLOW, the
\* next get_next_step call on the session returns exactly [END_WORKFLOW] and
\* processes no block; and no block that stands after an END_WORKFLOW block is
\* ever processed.
C35_EndIsTerminal ==
    [][/\ (ReturnedEnd /\ last'.op = "get_next_step") =>
              /\ last'.exc = ""
              /\ last'.actions = <<END_WORKFLOW>>
              /\ last'.at = NoPosition
       /\ ~ProcessedAfterEnd']_vars

(***************************************************************************)
(* Linear workflows driven by a caller that answers every question          *)
(***************************************************************************)
\* the workflow has no CONDITION and no GOTO_NODE block
Linear ==
    \A n \in 1..Len(wf.nodes) :
        \A k \in 1..Len(wf.nodes[n].blocks) :
            wf.nodes[n].blocks[k].type \notin {"CONDITION", "GOTO_NODE"}

\* the position of the block that follows the block at position at
After(at) == <<at[1], at[2] + 1>>

\* the last call was get_next_step and returned the AWAIT_USER_INPUT action
\* that is now pending
AsksNow ==
    /\ ProcessedList
    /\ last.exc = ""
    /\ session.pending_action # NoPending
    /\ \E i \in 1..Len(last.actions) :
          /\ "id" \in DOMAIN last.actions[i]
          /\ last.actions[i].id = session.pending_action.id

\* C36: in a workflow without CONDITION and GOTO_NODE blocks, with a caller
\* that answers each AWAIT_USER_INPUT with its id before the next
\* get_next_step, the blocks are processed one after the other: once a block
\* was processed (and the question it asked, if any, was answered with its
\* id) the session stands at the block that follows it, so that no block is
\* skipped and none is processed twice.
C36_EveryBlockOnce ==
    [][Linear =>
          /\ (/\ last'.op = "get_next_step"
              /\ last'.exc = ""
              /\ last'.at # NoPosition
              /\ ~AsksNow')
             => Position(session') = After(last'.at)
          /\ (/\ AsksNow
              /\ last'.op = "process_user_response"
              /\ last'.action_id = session.pending_action.id)
             => Position(session') = After(last.at)]_vars

(***************************************************************************)
(* The range of the block index                                            *)
(***************************************************************************)
\* C37: whenever the session names a node of the workflow, its block index is
\* at least 0 and at most the number of blocks of that node.
C37_IndexWithinNode ==
    session.current_node_id \in DOMAIN nodes =>
        /\ session.current_block_index >= 0
        /\ session.current_block_index
               <= Len(nodes[session.current_node_id].blocks)

(***************************************************************************)
(* Duplicate and stale callbacks                                           *)
(***************************************************************************)
\* the last call was a process_user_response that changed the session
ResponseTookEffect ==
    /\ last.op = "process_user_response"
    /\ session # last.pre

\* C38: a response that changes the session carries an id that had not changed
\* the session before and whose pending action had not been replaced by a
\* newer AWAIT_USER_INPUT: an id takes effect at most once, a replaced id never.
C38_IdEffectiveOnce ==
    ResponseTookEffect =>
        /\ last.action_id \notin last.effective
        /\ last.action_id \notin last.replaced

\* reached: a duplicate callback of an id that had taken effect, sent while a
\* newer action is pending and after another id had been replaced, is a no-op
C38_Witness ==
    /\ last.op = "process_user_response"
    /\ last.action_id \in last.effective
    /\ last.replaced # {}
    /\ last.pre.pending_action # NoPending
    /\ session = last.pre

(***************************************************************************)
(* Two sessions on one orchestrator                                        *)
(*   session is the session A of a first caller.  A second caller starts a *)
(*   session B, empty, on the same orchestrator; run alone, B's first call  *)
(*   is the call on the workflow as it was parsed.                         *)
(***************************************************************************)
\* what the first get_next_step of session B returns, raises and leaves in B
FirstStepOfB == get_next_step(EmptySession, 1)

\* what a caller sees of a call: the actions, the exception and the keys of
\* the session
Seen(r) ==
    [actions |-> r.actions, exc |-> r.exc,
     current_node_id |-> r.ss.current_node_id,
     current_block_index |-> r.ss.current_block_index,
     variables |-> r.ss.variables,
     pending_action |-> r.ss.pending_action]

\* C39: no call made with session A changes what the first call of session B
\* returns and the state it leaves B in, so B started after any calls of A
\* behaves as B run alone.
C39_SessionsIndependent ==
    [][Seen(FirstStepOfB)' = Seen(FirstStepOfB)]_vars

(***************************************************************************)
(* Interpolation and processing within one resolved list                   *)
(***************************************************************************)
\* the internal actions of the resolved list
InternalActions ==
    {j \in 1..Len(last.resolved) : last.resolved[j].type \in InternalKinds}

\* the internal actions that come after another internal action of the list
LaterInternalActions ==
    {j \in InternalActions : \E i \in InternalActions : i < j}

\* the variable an internal action assigns
AssignedBy(a) ==
    IF a.type = "ANALYZE_RESPONSE" THEN VarKey(FieldText(a, "output_bool"))
    ELSE TargetOf(a)

\* every internal action of the list assigns a variable of its own, so that
\* the session the call leaves shows what each of them assigned
OwnTargets ==
    \A i, j \in InternalActions :
        i # j => AssignedBy(last.resolved[i]) # AssignedBy(last.resolved[j])

\* the variables the internal actions before action j assign
AssignedBefore(j) ==
    {AssignedBy(last.resolved[i]) : i \in {i \in InternalActions : i < j}}

\* the variable mapping as the processing of action j finds it: the mapping
\* before the call with the assignments of the earlier actions of the list
VariablesAt(j) ==
    [k \in (DOMAIN last.pre.variables \cup AssignedBefore(j))
               \cap DOMAIN session.variables |->
        IF k \in AssignedBefore(j) THEN session.variables[k]
        ELSE last.pre.variables[k]]

\* the call read in the source of action j once the source, interpolated
\* before the processing, is interpolated against the mapping at j
CallAt(j) ==
    parse_function_call(
        interpolate_variables(FieldText(last.resolved[j], "source"),
                              VariablesAt(j)).v)

\* the target of a holds what the tool gave, or the source when it gave none
SourceCalled(a, outcome) ==
    Holds(a, IF outcome.exc = "" /\ outcome.v # NoneV THEN outcome.v
             ELSE FieldText(a, "source"))

\* a source-form SET_VARIABLE whose source reads as call: the tool result
\* when the call names a registered tool, the source text otherwise
SourceSeen(a, call) ==
    IF tool_registry.present /\ call.found /\ has_tool(tool_registry, call.name)
    THEN SourceCalled(a, ToolRegistry_call(tool_registry, call.name,
                                           call.args, <<>>))
    ELSE Holds(a, FieldText(a, "source"))

\* an action-form SET_VARIABLE: the tool result, null when the tool raised
ActionSeen(a, outcome) ==
    Holds(a, IF outcome.exc = "" THEN outcome.v ELSE NoneV)

\* the actions returned are the client-facing actions of the list with their
\* fields interpolated against the mapping before the call
ReturnedAsBefore ==
    [i \in 1..Len(last.actions) |-> WithoutId(last.actions[i])] =
        InterpolateActions(SelectSeq(last.resolved, IsClientFacing),
                           last.pre.variables)

\* the action-form SET_VARIABLE actions after an earlier internal action call
\* the tool with the arguments interpolated against the mapping at that time
ArgsSeeEarlier ==
    \A j \in LaterInternalActions :
        (IsSetFromAction(last.resolved[j])
            /\ NamesRegisteredTool(last.resolved[j])) =>
            ActionSeen(last.resolved[j],
                ToolRegistry_call(tool_registry, last.resolved[j].action.v, <<>>,
                    _interpolate_args_deep(
                        Get(last.resolved[j], "actionArgs", <<>>),
                        VariablesAt(j))))

\* the lists the statements are about: processed without an exception, with
\* an internal action, each assigning a variable of its own
OrderedList ==
    /\ ProcessedList
    /\ last.exc = ""
    /\ InternalActions # {}
    /\ OwnTargets

\* C40 as stated: the string fields of the actions of a list are interpolated
\* against the mapping before the call and an earlier assignment of the list
\* is not visible in them: a later source-form SET_VARIABLE acts on its source
\* as that interpolation left it; the actionArgs of a later SET_VARIABLE see
\* the earlier assignments.
C40_EarlierNotVisible ==
    OrderedList =>
        /\ ReturnedAsBefore
        /\ \A j \in LaterInternalActions :
              (IsSetFromSource(last.resolved[j])
                  /\ last.resolved[j].source.t = "str") =>
                  SourceSeen(last.resolved[j], ParsedSource(last.resolved[j]))
        /\ ArgsSeeEarlier

\* C40: the string fields of the actions of a list are interpolated against
\* the mapping before the call, and the returned actions and the directly
\* assigned sources show no earlier assignment of the list; with a tool
\* registry the source of a later SET_VARIABLE is interpolated once more when
\* it is processed, so the call read in it sees the earlier assignments; the
\* actionArgs of a later SET_VARIABLE see them as well.
C40_OnlyCallsSeeEarlier ==
    OrderedList =>
        /\ ReturnedAsBefore
        /\ \A j \in LaterInternalActions :
              (IsSetFromSource(last.resolved[j])
                  /\ last.resolved[j].source.t = "str") =>
                  SourceSeen(last.resolved[j], CallAt(j))
        /\ ArgsSeeEarlier

\* reached: a list whose first actions bind v to "1" and c to "h("; the
\* message returned still reads {v} and the direct source stays {v}, while the
\* source {c}1) was read as the call h(1) and the argument tree reached the
\* tool with the value of v
C40_Witness ==
    /\ OrderedList
    /\ tool_registry.present
    /\ DOMAIN last.pre.variables = {<<"u">>}
    /\ Len(last.resolved) = 6
    /\ session.variables[<<"v">>] = StrV(<<"1">>)
    /\ session.variables[<<"c">>] = StrV(<<"h", "(">>)
    /\ last.actions = <<PRESENT(<<"{", "v", "}">>)>>
    /\ Holds(last.resolved[4], BoolV(FALSE))
    /\ Holds(last.resolved[5], BoolV(TRUE))
    /\ Holds(last.resolved[6], StrV(<<"{", "v", "}">>))
====
